---- MODULE Spec2Model ----
(***************************************************************************)
(* Chronos, a weather-adaptive planner: the weather source with its cache  *)
(* (tools.py), the risk scorer (utils.py) and the planning pipeline        *)
(* (agent.py), as state machines.                                          *)
(*                                                                         *)
(* Python strings are TLA+ strings; floats that the code rounds to one     *)
(* decimal are integers counting tenths; a dict is a function whose        *)
(* domain holds the keys that are present; a list is a sequence.           *)
(***************************************************************************)
EXTENDS Integers, Sequences, FiniteSets, TLC

VARIABLES
    cache,      \* _weather_cache: key -> [weather, cache_time]
    origin,     \* history: key -> how the cached observation was produced
    now,        \* datetime.now(), in minutes
    task,       \* per coroutine: where its get_weather call stands
    ret,        \* the value a get_weather call returned in the last step
    pyhash,     \* this process's str hash, on the strings the code hashes
    pool,       \* the coroutines the host runs on its event loop
    obs,        \* the observation handed to calculate_weather_risk
    risk,       \* its RiskLevel, once scored
    other,      \* a second observation's precipitation chance and RiskLevel
    run,        \* the run_chronos invocation in progress
    out,        \* the value run_chronos returned in the last step
    watch,      \* history: a pair of simulated get_weather calls being compared
    given,      \* the arguments a pure function is applied to
    answer,     \* what it returned
    screen      \* what the page shows after a click on its button

wvars == <<cache, origin, now, task, ret, pyhash, pool>>
rvars == <<obs, risk, other>>
pvars == <<run, out>>
avars == <<watch, given, answer, screen>>
vars == <<wvars, rvars, pvars, avars>>

(***************************************************************************)
(* Bounds of the model.                                                    *)
(***************************************************************************)
MaxTime == 45
TickStep == 15
Tenths == 10
Locations == {"Paris", "paris"}
Dates == {"2026-02-08", "2026-02-09"}
Descriptions ==
    {"Sunny", "Heavy Rain", "Rain", "Windy", "Mist", "Light Snow",
     "partly cloudy"}
RiskConditions ==
    {"sunny", "cloudy", "light rain", "Heavy Rain", "thunderstorms",
     "snow", "rain and snow", "Snow Storm", "hail", "severe weather"}
WindSamples == {50, 100, 149, 150, 249, 250, 399, 400}
PrecipSamples == {0, 15, 19, 20, 39, 40, 59, 60, 79, 80, 85, 100}
TaskIds == {"t1", "t2"}
UserRequests == {"Plan a beach day with friends", "Schedule a team meeting"}
RawLocations == {"Paris", " paris "}
DateRanges ==
    {<<"2026-02-08", "2026-02-08">>, <<"2026-02-08", "2026-02-09">>}

(***************************************************************************)
(* Python values.                                                          *)
(***************************************************************************)
None == [py_none |-> TRUE]
EmptyDict == <<>>
Get(d, key, default) == IF key \in DOMAIN d THEN d[key] ELSE default
\* v is None, for a v that may be a string
IsNone(v) == ToString(v) = ToString(None)

UpperLetters == "ABCDEFGHIJKLMNOPQRSTUVWXYZ"
LowerLetters == "abcdefghijklmnopqrstuvwxyz"
Ch(s, i) == SubSeq(s, i, i)

LowerChar(c) ==
    IF \E i \in 1..26 : Ch(UpperLetters, i) = c
    THEN Ch(LowerLetters, CHOOSE i \in 1..26 : Ch(UpperLetters, i) = c)
    ELSE c

RECURSIVE LowerFrom(_, _)
LowerFrom(s, i) ==
    IF i > Len(s) THEN "" ELSE LowerChar(Ch(s, i)) \o LowerFrom(s, i + 1)

\* str.lower(), computed once for each string of the model.
Strings == Locations \cup Descriptions \cup RiskConditions \cup UserRequests
LowerTable == [s \in Strings |-> LowerFrom(s, 1)]
Lower(s) == IF s \in DOMAIN LowerTable THEN LowerTable[s] ELSE LowerFrom(s, 1)

\* k in t
Contains(t, k) ==
    \E i \in 0..(Len(t) - Len(k)) : SubSeq(t, i + 1, i + Len(k)) = k

Digits == "0123456789"
IsDigit(c) == \E i \in 1..10 : Ch(Digits, i) = c
DigitVal(c) == (CHOOSE i \in 1..10 : Ch(Digits, i) = c) - 1

RECURSIVE DigitsVal(_, _)
DigitsVal(s, n) ==
    IF n = 0 THEN 0 ELSE 10 * DigitsVal(s, n - 1) + DigitVal(Ch(s, n))

\* int(s) and float(s) on the text of a whole number: [ok, val]; ok is FALSE
\* where Python raises ValueError.
ParseNumber(s) ==
    LET neg == Len(s) > 0 /\ Ch(s, 1) = "-"
        body == IF neg THEN SubSeq(s, 2, Len(s)) ELSE s
    IN  IF Len(body) = 0 \/ \E i \in 1..Len(body) : ~IsDigit(Ch(body, i))
        THEN [ok |-> FALSE, val |-> 0]
        ELSE [ok |-> TRUE,
              val |-> IF neg THEN 0 - DigitsVal(body, Len(body))
                      ELSE DigitsVal(body, Len(body))]

(***************************************************************************)
(* models.py: WeatherCondition.                                            *)
(***************************************************************************)
MaxPercent == 100


\* A validator that forgets the upper limit of the precipitation chance.
WeatherConditionValid_no_upper(w) ==
    /\ w.precipitation_chance >= 0
    /\ w.wind_speed_kmh >= 0
    /\ w.humidity_percent >= 0
    /\ w.humidity_percent <= MaxPercent

\* The Field constraints pydantic checks when a WeatherCondition is built.
WeatherConditionValid(w) ==
    /\ w.precipitation_chance >= 0
    /\ w.precipitation_chance <= MaxPercent
    /\ w.wind_speed_kmh >= 0
    /\ w.humidity_percent >= 0
    /\ w.humidity_percent <= MaxPercent

(***************************************************************************)
(* tools.py: the cache.                                                    *)
(***************************************************************************)
CACHE_TTL_MINUTES == 30


\* Freshness tests with the comparison turned round, and with the limit
\* itself counted as fresh.
is_cache_valid_inverted(cache_time, t) == t - cache_time > CACHE_TTL_MINUTES
is_cache_valid_inclusive(cache_time, t) == t - cache_time <= CACHE_TTL_MINUTES

_is_cache_valid(cache_time, t) == t - cache_time < CACHE_TTL_MINUTES

CacheKey(location, date) == <<Lower(location), date>>

\* The observation, or None, and the cache as the lookup leaves it.
_get_cached_weather(c, location, date, t) ==
    LET key == CacheKey(location, date)
    IN  IF key \in DOMAIN c
        THEN IF _is_cache_valid(c[key].cache_time, t)
             THEN [weather |-> c[key].weather, cache |-> c]
             ELSE [weather |-> None,
                   cache |-> [k \in DOMAIN c \ {key} |-> c[k]]]
        ELSE [weather |-> None, cache |-> c]

_store_cached_weather(c, location, date, weather, t) ==
    LET key == CacheKey(location, date)
    IN  [k \in DOMAIN c \cup {key} |->
            IF k = key THEN [weather |-> weather, cache_time |-> t] ELSE c[k]]

(***************************************************************************)
(* tools.py: generate_simulated_weather.  random.seed(seed_value) makes    *)
(* every later draw a function of the seed; RandInt stands for that        *)
(* function, with the range each draw has in the code.                     *)
(***************************************************************************)
SeedModulus == 10000
SeedString(location, date) == Lower(location) \o "_" \o date
SeedStrings == {SeedString(l, d) : l \in Locations, d \in Dates}

\* Two processes' str hashes (PYTHONHASHSEED differs from run to run).
HashSamples ==
    {[s \in SeedStrings |->
        IF s = SeedString("paris", "2026-02-08") THEN 0 ELSE 10005],
     [s \in SeedStrings |->
        IF s = SeedString("paris", "2026-02-08") THEN 20004 ELSE 3]}

conditions ==
    <<"sunny", "partly cloudy", "cloudy", "light rain", "rainy", "thunderstorms">>

RandInt(seed, k, lo, hi) == lo + (((seed + 1) * k) % (hi - lo + 1))

precip_map(seed) ==
    [sunny |-> RandInt(seed, 3, 0, 10),
     partly_cloudy |-> RandInt(seed, 5, 5, 25),
     cloudy |-> RandInt(seed, 7, 15, 40),
     light_rain |-> RandInt(seed, 11, 50, 70),
     rainy |-> RandInt(seed, 13, 70, 90),
     thunderstorms |-> RandInt(seed, 10, 80, 100)]

PrecipFor(seed, condition) ==
    CASE condition = "sunny" -> precip_map(seed).sunny
      [] condition = "partly cloudy" -> precip_map(seed).partly_cloudy
      [] condition = "cloudy" -> precip_map(seed).cloudy
      [] condition = "light rain" -> precip_map(seed).light_rain
      [] condition = "rainy" -> precip_map(seed).rainy
      [] OTHER -> precip_map(seed).thunderstorms


\* A generator that does not reseed: its draws follow from the random state
\* that the observations generated before have left.
generate_simulated_weather_unseeded(location, date, h) ==
    LET seed_value ==
            (h[SeedString(location, date)] + Cardinality(DOMAIN cache))
            % SeedModulus
        condition == conditions[(seed_value % Len(conditions)) + 1]
    IN  [temperature_celsius |-> RandInt(seed_value, 37, 15 * Tenths, 28 * Tenths),
         condition |-> condition,
         precipitation_chance |-> PrecipFor(seed_value, condition),
         wind_speed_kmh |-> RandInt(seed_value, 53, 5 * Tenths, 25 * Tenths),
         humidity_percent |-> RandInt(seed_value, 7, 40, 85),
         forecast_date |-> date,
         location |-> location,
         is_simulated |-> TRUE]

\* A generator that leaves is_simulated at the field's default.
generate_simulated_weather_unmarked(location, date, h) ==
    LET seed_value == h[SeedString(location, date)] % SeedModulus
        condition == conditions[(seed_value % Len(conditions)) + 1]
    IN  [temperature_celsius |-> RandInt(seed_value, 37, 15 * Tenths, 28 * Tenths),
         condition |-> condition,
         precipitation_chance |-> PrecipFor(seed_value, condition),
         wind_speed_kmh |-> RandInt(seed_value, 53, 5 * Tenths, 25 * Tenths),
         humidity_percent |-> RandInt(seed_value, 7, 40, 85),
         forecast_date |-> date,
         location |-> location,
         is_simulated |-> FALSE]

generate_simulated_weather(location, date, h) ==
    LET seed_value == h[SeedString(location, date)] % SeedModulus
        condition == conditions[(seed_value % Len(conditions)) + 1]
        base == RandInt(seed_value, 37, 15 * Tenths, 28 * Tenths)
        base_temp ==
            IF Contains(condition, "rain") \/ condition = "thunderstorms"
            THEN base - RandInt(seed_value, 17, 3 * Tenths, 8 * Tenths)
            ELSE base
    IN  [temperature_celsius |-> base_temp,
         condition |-> condition,
         precipitation_chance |-> PrecipFor(seed_value, condition),
         wind_speed_kmh |-> RandInt(seed_value, 53, 5 * Tenths, 25 * Tenths),
         humidity_percent |-> RandInt(seed_value, 7, 40, 85),
         forecast_date |-> date,
         location |-> location,
         is_simulated |-> TRUE]

(***************************************************************************)
(* tools.py: fetch_weather_from_api.  resp is what the live source did:    *)
(* kind is "ok" when the GET returned a success status and a JSON body,    *)
(* data; any other kind is an exception raised inside the try block.       *)
(***************************************************************************)
NoDate == "<no date>"

fetch_weather_from_api(location, date, resp) ==
    IF resp.kind # "ok" THEN None
    ELSE
    LET data == resp.data
        current_condition == Get(data, "current_condition", <<EmptyDict>>)
        weather_list == Get(data, "weather", <<>>)
        nearest_areas == Get(data, "nearest_area", <<EmptyDict>>)
    IN  IF Len(current_condition) = 0 \/ Len(nearest_areas) = 0 THEN None
        ELSE
        LET current == current_condition[1]
            matching == {i \in 1..Len(weather_list) :
                            Get(weather_list[i], "date", NoDate) = date}
            forecast ==
                IF matching # {}
                THEN weather_list[CHOOSE i \in matching :
                                     \A j \in matching : i <= j]
                ELSE IF Len(weather_list) > 0 THEN weather_list[1]
                ELSE EmptyDict
        IN  IF DOMAIN forecast = {} THEN None
            ELSE
            LET temp_max == ParseNumber(Get(forecast, "maxtempC", "20"))
                temp_min == ParseNumber(Get(forecast, "mintempC", "15"))
                hourly == Get(forecast, "hourly", <<>>)
                midday == IF Len(hourly) > 4 THEN hourly[5]
                          ELSE IF Len(hourly) > 0 THEN hourly[1]
                          ELSE EmptyDict
                descs == Get(current, "weatherDesc", <<EmptyDict>>)
                precip_chance == ParseNumber(Get(midday, "chanceofrain", "0"))
                wind_speed == ParseNumber(Get(midday, "windspeedKmph", "10"))
                humidity == ParseNumber(Get(midday, "humidity", "65"))
                names == Get(nearest_areas[1], "areaName", <<EmptyDict>>)
            IN  IF \/ ~temp_max.ok \/ ~temp_min.ok \/ ~precip_chance.ok
                   \/ ~wind_speed.ok \/ ~humidity.ok
                   \/ Len(descs) = 0 \/ Len(names) = 0
                THEN None
                ELSE
                LET built ==
                        [temperature_celsius |->
                            ((temp_max.val + temp_min.val) * Tenths) \div 2,
                         condition |->
                            Lower(Get(descs[1], "value", "partly cloudy")),
                         precipitation_chance |-> precip_chance.val,
                         wind_speed_kmh |-> wind_speed.val * Tenths,
                         humidity_percent |-> humidity.val,
                         forecast_date |-> date,
                         location |-> Get(names[1], "value", location),
                         is_simulated |-> FALSE]
                IN  IF WeatherConditionValid(built) THEN built ELSE None

(***************************************************************************)
(* What the live source may answer.                                        *)
(***************************************************************************)
Sample(rain, wind, hum) ==
    [chanceofrain |-> rain, windspeedKmph |-> wind, humidity |-> hum]

Hourly(mid) == [i \in 1..8 |-> IF i = 5 THEN mid ELSE Sample("0", "5", "50")]

Day(date, mid) ==
    [date |-> date, maxtempC |-> "24", mintempC |-> "16", hourly |-> Hourly(mid)]

Body(desc, days) ==
    [current_condition |-> <<[weatherDesc |-> <<[value |-> desc]>>]>>,
     weather |-> days,
     nearest_area |-> <<[areaName |-> <<[value |-> "Paris"]>>]>>]

Failed(kind) == [tag |-> kind, kind |-> kind, data |-> EmptyDict]
Answered(tag, data) == [tag |-> tag, kind |-> "ok", data |-> data]

\* Exceptions raised by the request, the status check or the JSON decoding.
LiveExceptions ==
    {Failed("timeout"), Failed("connect_error"), Failed("http_status"),
     Failed("bad_json")}

\* Bodies the code cannot build an observation from.
LiveUnusable ==
    {Answered("empty_list", Body("Sunny", <<>>)),
     Answered("no_weather_key",
              [current_condition |-> <<[weatherDesc |-> <<[value |-> "Sunny"]>>]>>]),
     Answered("no_current_entry",
              [current_condition |-> <<>>,
               weather |-> <<Day("2026-02-08", Sample("10", "12", "70"))>>]),
     Answered("rain_out_of_range",
              Body("Rain", <<Day("2026-02-08", Sample("120", "12", "70"))>>)),
     Answered("wind_negative",
              Body("Windy", <<Day("2026-02-08", Sample("10", "-3", "70"))>>)),
     Answered("humidity_out_of_range",
              Body("Mist", <<Day("2026-02-08", Sample("10", "12", "101"))>>)),
     Answered("not_a_number",
              Body("Sunny", <<Day("2026-02-08", Sample("n/a", "12", "70"))>>))}

\* Bodies with a forecast day whose fields are partly or wholly missing.
LiveMissingFields ==
    {Answered("day_without_fields", [weather |-> <<[date |-> "2026-02-08"]>>]),
     Answered("day_without_hourly",
              Body("Light Snow",
                   <<[date |-> "2026-02-09", maxtempC |-> "2",
                      mintempC |-> "-4"]>>))}

\* Complete bodies.
LiveComplete ==
    {Answered("complete",
              Body("Heavy Rain",
                   <<Day("2026-02-08", Sample("85", "12", "70")),
                     Day("2026-02-09", Sample("10", "42", "40"))>>)),
     Answered("other_days_only",
              Body("Sunny", <<Day("2026-02-07", Sample("5", "8", "45"))>>))}

LiveResponses ==
    LiveExceptions \cup LiveUnusable \cup LiveMissingFields \cup LiveComplete

(***************************************************************************)
(* tools.py: get_weather, in the two pieces its one await separates.       *)
(* raised is TRUE where the call ends with an exception instead of a       *)
(* value.                                                                  *)
(***************************************************************************)
Outcome(pc, raised, weather, c, fetched, synthesized, evicted) ==
    [pc |-> pc, raised |-> raised, weather |-> weather, cache |-> c,
     fetched |-> fetched, synthesized |-> synthesized, evicted |-> evicted]

\* A get_weather that reserves the entry of its key before the live fetch.
get_weather_begin_reserving(c, t, location, date, use_simulation, h) ==
    LET looked == _get_cached_weather(c, location, date, t)
        evicted == DOMAIN looked.cache # DOMAIN c
    IN  IF looked.weather # None
        THEN Outcome("return", FALSE, looked.weather, looked.cache,
                     FALSE, FALSE, evicted)
        ELSE IF use_simulation
        THEN LET weather == generate_simulated_weather(location, date, h)
             IN  Outcome("return", FALSE, weather,
                         _store_cached_weather(looked.cache, location,
                                               date, weather, t),
                         FALSE, TRUE, evicted)
        ELSE Outcome("await", FALSE, None,
                     _store_cached_weather(looked.cache, location, date,
                                           None, t),
                     FALSE, FALSE, evicted)


\* A get_weather that looks in the cache only when it is not simulating.
get_weather_begin_simulation_first(c, t, location, date, use_simulation, h) ==
    LET looked == _get_cached_weather(c, location, date, t)
        evicted == DOMAIN looked.cache # DOMAIN c
    IN  IF use_simulation
        THEN LET weather == generate_simulated_weather(location, date, h)
             IN  IF WeatherConditionValid(weather)
                 THEN Outcome("return", FALSE, weather,
                              _store_cached_weather(looked.cache, location,
                                                    date, weather, t),
                              FALSE, TRUE, evicted)
                 ELSE Outcome("return", TRUE, None, looked.cache,
                              FALSE, TRUE, evicted)
        ELSE IF looked.weather # None
        THEN Outcome("return", FALSE, looked.weather, looked.cache,
                     FALSE, FALSE, evicted)
        ELSE Outcome("await", FALSE, None, looked.cache, FALSE, FALSE, evicted)

\* From the call to the await of fetch_weather_from_api, or to the return.
get_weather_begin(c, t, location, date, use_simulation, h) ==
    LET looked == _get_cached_weather(c, location, date, t)
        evicted == DOMAIN looked.cache # DOMAIN c
    IN  IF looked.weather # None
        THEN Outcome("return", FALSE, looked.weather, looked.cache,
                     FALSE, FALSE, evicted)
        ELSE IF use_simulation
        THEN LET weather == generate_simulated_weather(location, date, h)
             IN  IF WeatherConditionValid(weather)
                 THEN Outcome("return", FALSE, weather,
                              _store_cached_weather(looked.cache, location,
                                                    date, weather, t),
                              FALSE, TRUE, evicted)
                 ELSE Outcome("return", TRUE, None, looked.cache,
                              FALSE, TRUE, evicted)
        ELSE Outcome("await", FALSE, None, looked.cache, FALSE, FALSE, evicted)


\* A get_weather that lets a failed live fetch end the call.
get_weather_resume_no_fallback(c, t, location, date, resp, h) ==
    LET api_result == fetch_weather_from_api(location, date, resp)
    IN  IF api_result # None
        THEN Outcome("return", FALSE, api_result,
                     _store_cached_weather(c, location, date, api_result, t),
                     TRUE, FALSE, FALSE)
        ELSE Outcome("return", TRUE, None, c, TRUE, FALSE, FALSE)

\* From the answer of the live source to the return.
get_weather_resume(c, t, location, date, resp, h) ==
    LET api_result == fetch_weather_from_api(location, date, resp)
    IN  IF api_result # None
        THEN Outcome("return", FALSE, api_result,
                     _store_cached_weather(c, location, date, api_result, t),
                     TRUE, FALSE, FALSE)
        ELSE LET simulated == generate_simulated_weather(location, date, h)
                 weather == [simulated EXCEPT !.is_simulated = TRUE]
             IN  IF WeatherConditionValid(simulated)
                 THEN Outcome("return", FALSE, weather,
                              _store_cached_weather(c, location, date,
                                                    weather, t),
                              TRUE, TRUE, FALSE)
                 ELSE Outcome("return", TRUE, None, c, TRUE, TRUE, FALSE)

clear_weather_cache(c) == [k \in {} |-> None]

(***************************************************************************)
(* The weather source as a state machine.                                  *)
(***************************************************************************)
Idle == [pc |-> "idle"]
NoRet == [returned |-> FALSE]

\* History: how each cached observation was produced.
OriginAfter(o, c2, key, how) ==
    [k \in DOMAIN c2 |->
        IF k = key /\ how # "kept" THEN how
        ELSE IF k \in DOMAIN o THEN o[k] ELSE how]

Returned(id, location, date, use_simulation, r, live, how, evicted) ==
    [returned |-> TRUE, task |-> id, location |-> location, date |-> date,
     use_simulation |-> use_simulation, raised |-> r.raised,
     weather |-> r.weather, fetched |-> r.fetched,
     synthesized |-> r.synthesized, live |-> live, origin |-> how,
     evicted |-> evicted]

InitWeather ==
    /\ cache = [k \in {} |-> None]
    /\ origin = [k \in {} |-> None]
    /\ now = 0
    /\ task = [id \in TaskIds |-> Idle]
    /\ ret = NoRet
    /\ pyhash \in HashSamples

\* A coroutine calls get_weather and runs to its await or to its return.
GetWeatherCalled(id, location, date, use_simulation) ==
    /\ id \in pool
    /\ task[id].pc = "idle"
    /\ LET r == get_weather_begin(cache, now, location, date,
                                  use_simulation, pyhash)
           key == CacheKey(location, date)
           how == IF r.synthesized /\ ~r.raised THEN "synthesized" ELSE "kept"
       IN  /\ cache' = r.cache
           /\ origin' = OriginAfter(origin, r.cache, key, how)
           /\ IF r.pc = "return"
              THEN /\ task' = task
                   /\ ret' = Returned(id, location, date, use_simulation, r,
                                      "none",
                                      IF how = "kept" /\ key \in DOMAIN origin
                                      THEN origin[key] ELSE how,
                                      r.evicted)
              ELSE /\ task' = [task EXCEPT ![id] =
                                  [pc |-> "fetching", location |-> location,
                                   date |-> date, evicted |-> r.evicted]]
                   /\ ret' = NoRet
    /\ UNCHANGED <<now, pyhash, pool, rvars, pvars>>

CallGetWeather(id, location, date, use_simulation) ==
    GetWeatherCalled(id, location, date, use_simulation) /\ UNCHANGED avars

\* The live source answers (or fails) and get_weather runs to its return.
LiveSourceAnswers(id, resp) ==
    /\ id \in pool
    /\ task[id].pc = "fetching"
    /\ LET location == task[id].location
           date == task[id].date
           r == get_weather_resume(cache, now, location, date, resp, pyhash)
           key == CacheKey(location, date)
           how == IF r.raised THEN "kept"
                  ELSE IF r.synthesized THEN "synthesized" ELSE "live"
       IN  /\ cache' = r.cache
           /\ origin' = OriginAfter(origin, r.cache, key, how)
           /\ ret' = Returned(id, location, date, FALSE, r, resp.tag, how,
                              task[id].evicted)
    /\ task' = [task EXCEPT ![id] = Idle]
    /\ UNCHANGED <<now, pyhash, pool, rvars, pvars, avars>>

\* Time passes.
Tick ==
    /\ now + TickStep <= MaxTime
    /\ now' = now + TickStep
    /\ ret' = NoRet
    /\ UNCHANGED <<cache, origin, task, pyhash, pool, rvars, pvars, avars>>

CacheCleared ==
    /\ cache' = clear_weather_cache(cache)
    /\ origin' = [k \in {} |-> None]
    /\ ret' = NoRet
    /\ UNCHANGED <<now, task, pyhash, pool, rvars, pvars>>

ClearCache == CacheCleared /\ UNCHANGED avars

NextWeather ==
    \/ \E id \in TaskIds, location \in Locations, date \in Dates,
          use_simulation \in BOOLEAN :
            CallGetWeather(id, location, date, use_simulation)
    \/ \E id \in TaskIds, resp \in LiveResponses : LiveSourceAnswers(id, resp)
    \/ Tick
    \/ ClearCache

\* Nothing is being scored or planned.
Unscored == "unscored"
NoOther == [scored |-> FALSE]
NoObservation == [scoring |-> FALSE]
NoRun == [pc |-> "idle"]
NoOut == [returned |-> FALSE]
RiskIdle == obs = NoObservation /\ risk = Unscored /\ other = NoOther
PipelineIdle == run = NoRun /\ out = NoOut
NoWatch == [phase |-> "none"]
NoArguments == [function |-> "none"]
NoAnswer == [returned |-> FALSE]
NoScreen == [shown |-> "form"]
AuxIdle ==
    watch = NoWatch /\ given = NoArguments /\ answer = NoAnswer
    /\ screen = NoScreen

Init == InitWeather /\ pool = {"t1"} /\ RiskIdle /\ PipelineIdle /\ AuxIdle
Next == NextWeather
Spec == Init /\ [][Next]_vars

(***************************************************************************)
(* The weather source with a history of two simulated calls for the same   *)
(* location and date: the first, a clear_weather_cache after it, and the   *)
(* second, with calls for other keys only in between.  made tells whether  *)
(* the call synthesized its observation or took it from the cache.         *)
(***************************************************************************)
Watching(phase, location, date, first, first_made) ==
    [phase |-> phase, location |-> location, date |-> date,
     first |-> first, first_made |-> first_made]

Compared(w, second, second_made) ==
    [phase |-> "second", location |-> w.location, date |-> w.date,
     first |-> w.first, first_made |-> w.first_made,
     second |-> second, second_made |-> second_made]

\* After a comparison the second call is the first of the next pair.
WatchBase(w) ==
    IF w.phase = "second"
    THEN Watching("first", w.location, w.date, w.second, w.second_made)
    ELSE w

WatchAfterCall(w, location, date, use_simulation, r) ==
    LET b == WatchBase(w)
        simulated == use_simulation /\ r.returned /\ ~r.raised
    IN  IF b.phase = "none"
        THEN IF simulated
             THEN Watching("first", location, date, r.weather, r.synthesized)
             ELSE b
        ELSE IF CacheKey(location, date) # CacheKey(b.location, b.date)
        THEN b
        ELSE IF ~simulated THEN NoWatch
        ELSE IF b.phase = "cleared" /\ location = b.location
        THEN Compared(b, r.weather, r.synthesized)
        ELSE Watching("first", location, date, r.weather, r.synthesized)

WatchAfterClear(w) ==
    LET b == WatchBase(w)
    IN  IF b.phase = "first" THEN [b EXCEPT !.phase = "cleared"] ELSE b

WatchedCall(id, location, date, use_simulation) ==
    /\ GetWeatherCalled(id, location, date, use_simulation)
    /\ watch' = WatchAfterCall(watch, location, date, use_simulation, ret')
    /\ UNCHANGED <<given, answer, screen>>

WatchedClear ==
    /\ CacheCleared
    /\ watch' = WatchAfterClear(watch)
    /\ UNCHANGED <<given, answer, screen>>

InitWatched ==
    InitWeather /\ pool = {"t1"} /\ RiskIdle /\ PipelineIdle /\ AuxIdle

NextWatched ==
    \/ \E id \in TaskIds, location \in Locations, date \in Dates,
          use_simulation \in BOOLEAN :
            WatchedCall(id, location, date, use_simulation)
    \/ \E id \in TaskIds, resp \in LiveResponses : LiveSourceAnswers(id, resp)
    \/ WatchedClear

SpecWatched == InitWatched /\ [][NextWatched]_vars

(***************************************************************************)
(* utils.py: calculate_weather_risk.                                       *)
(***************************************************************************)
RiskLevel == [LOW |-> "low", MEDIUM |-> "medium", HIGH |-> "high",
              CRITICAL |-> "critical"]

\* A scorer whose 60 % step adds less than its 40 % step.
calculate_weather_risk_dip(weather) ==
    LET precipitation ==
            IF weather.precipitation_chance >= 80 THEN 40
            ELSE IF weather.precipitation_chance >= 60 THEN 3
            ELSE IF weather.precipitation_chance >= 40 THEN 20
            ELSE IF weather.precipitation_chance >= 20 THEN 10
            ELSE 0
        wind ==
            IF weather.wind_speed_kmh >= 40 * Tenths THEN 20
            ELSE IF weather.wind_speed_kmh >= 25 * Tenths THEN 10
            ELSE IF weather.wind_speed_kmh >= 15 * Tenths THEN 5
            ELSE 0
        severe_keywords == {"thunderstorm", "storm", "heavy rain", "hail", "severe"}
        condition ==
            IF \E kw \in severe_keywords :
                  Contains(Lower(weather.condition), kw) THEN 40
            ELSE IF Contains(Lower(weather.condition), "rain") THEN 15
            ELSE IF Contains(Lower(weather.condition), "snow") THEN 20
            ELSE 0
        score == precipitation + wind + condition
    IN  IF score >= 60 THEN RiskLevel.CRITICAL
        ELSE IF score >= 40 THEN RiskLevel.HIGH
        ELSE IF score >= 20 THEN RiskLevel.MEDIUM
        ELSE RiskLevel.LOW

\* A scorer that tests "rain" before the severe keywords.
calculate_weather_risk_rain_first(weather) ==
    LET precipitation ==
            IF weather.precipitation_chance >= 80 THEN 40
            ELSE IF weather.precipitation_chance >= 60 THEN 30
            ELSE IF weather.precipitation_chance >= 40 THEN 20
            ELSE IF weather.precipitation_chance >= 20 THEN 10
            ELSE 0
        wind ==
            IF weather.wind_speed_kmh >= 40 * Tenths THEN 20
            ELSE IF weather.wind_speed_kmh >= 25 * Tenths THEN 10
            ELSE IF weather.wind_speed_kmh >= 15 * Tenths THEN 5
            ELSE 0
        severe_keywords == {"thunderstorm", "storm", "heavy rain", "hail", "severe"}
        condition ==
            IF Contains(Lower(weather.condition), "rain") THEN 15
            ELSE IF \E kw \in severe_keywords :
                       Contains(Lower(weather.condition), kw) THEN 40
            ELSE IF Contains(Lower(weather.condition), "snow") THEN 20
            ELSE 0
        score == precipitation + wind + condition
    IN  IF score >= 60 THEN RiskLevel.CRITICAL
        ELSE IF score >= 40 THEN RiskLevel.HIGH
        ELSE IF score >= 20 THEN RiskLevel.MEDIUM
        ELSE RiskLevel.LOW

calculate_weather_risk(weather) ==
    LET precipitation ==
            IF weather.precipitation_chance >= 80 THEN 40
            ELSE IF weather.precipitation_chance >= 60 THEN 30
            ELSE IF weather.precipitation_chance >= 40 THEN 20
            ELSE IF weather.precipitation_chance >= 20 THEN 10
            ELSE 0
        wind ==
            IF weather.wind_speed_kmh >= 40 * Tenths THEN 20
            ELSE IF weather.wind_speed_kmh >= 25 * Tenths THEN 10
            ELSE IF weather.wind_speed_kmh >= 15 * Tenths THEN 5
            ELSE 0
        severe_keywords == {"thunderstorm", "storm", "heavy rain", "hail", "severe"}
        condition ==
            IF \E kw \in severe_keywords :
                  Contains(Lower(weather.condition), kw) THEN 40
            ELSE IF Contains(Lower(weather.condition), "rain") THEN 15
            ELSE IF Contains(Lower(weather.condition), "snow") THEN 20
            ELSE 0
        score == precipitation + wind + condition
    IN  IF score >= 60 THEN RiskLevel.CRITICAL
        ELSE IF score >= 40 THEN RiskLevel.HIGH
        ELSE IF score >= 20 THEN RiskLevel.MEDIUM
        ELSE RiskLevel.LOW

(***************************************************************************)
(* The risk scorer applied to one observation, and then to a second one    *)
(* that differs from it in the precipitation chance only.                  *)
(***************************************************************************)
Observation(precip, wind, condition) ==
    [temperature_celsius |-> 20 * Tenths,
     condition |-> condition,
     precipitation_chance |-> precip,
     wind_speed_kmh |-> wind,
     humidity_percent |-> 50,
     forecast_date |-> "2026-02-08",
     location |-> "Paris",
     is_simulated |-> FALSE]

WeatherIdle ==
    /\ cache = [k \in {} |-> None]
    /\ origin = [k \in {} |-> None]
    /\ now = 0
    /\ task = [id \in TaskIds |-> Idle]
    /\ ret = NoRet
    /\ pyhash = CHOOSE h \in HashSamples : TRUE
    /\ pool = {}

InitRisk ==
    /\ obs \in {Observation(p, w, c) :
                    p \in 0..MaxPercent, w \in WindSamples, c \in RiskConditions}
    /\ risk = Unscored
    /\ other = NoOther
    /\ WeatherIdle
    /\ PipelineIdle
    /\ AuxIdle

Score ==
    /\ risk = Unscored
    /\ risk' = calculate_weather_risk(obs)
    /\ UNCHANGED <<obs, other, wvars, pvars, avars>>

ScoreOther(precip) ==
    /\ risk # Unscored
    /\ other = NoOther
    /\ other' = [scored |-> TRUE,
                 precipitation_chance |-> precip,
                 risk |-> calculate_weather_risk(
                            [obs EXCEPT !.precipitation_chance = precip])]
    /\ UNCHANGED <<obs, risk, wvars, pvars, avars>>

NextRisk ==
    \/ Score
    \/ \E precip \in PrecipSamples : ScoreOther(precip)

SpecRisk == InitRisk /\ [][NextRisk]_vars

(***************************************************************************)
(* The str methods and conversions the planning pipeline uses.             *)
(***************************************************************************)
Whitespace == {" ", "\n", "\t"}

RECURSIVE LStrip(_)
LStrip(s) ==
    IF Len(s) > 0 /\ Ch(s, 1) \in Whitespace
    THEN LStrip(SubSeq(s, 2, Len(s))) ELSE s

RECURSIVE RStrip(_)
RStrip(s) ==
    IF Len(s) > 0 /\ Ch(s, Len(s)) \in Whitespace
    THEN RStrip(SubSeq(s, 1, Len(s) - 1)) ELSE s

\* str.strip()
Strip(s) == RStrip(LStrip(s))

StartsWith(s, p) == Len(s) >= Len(p) /\ SubSeq(s, 1, Len(p)) = p
EndsWith(s, p) ==
    Len(s) >= Len(p) /\ SubSeq(s, Len(s) - Len(p) + 1, Len(s)) = p

IsLetter(c) ==
    \E i \in 1..26 : Ch(UpperLetters, i) = c \/ Ch(LowerLetters, i) = c

UpperChar(c) ==
    IF \E i \in 1..26 : Ch(LowerLetters, i) = c
    THEN Ch(UpperLetters, CHOOSE i \in 1..26 : Ch(LowerLetters, i) = c)
    ELSE c

\* str.title(): a letter after a non-letter is upper-cased, any other letter
\* lower-cased.
RECURSIVE TitleFrom(_, _)
TitleFrom(s, i) ==
    IF i > Len(s) THEN ""
    ELSE (IF i = 1 \/ ~IsLetter(Ch(s, i - 1))
          THEN UpperChar(Ch(s, i)) ELSE LowerChar(Ch(s, i)))
         \o TitleFrom(s, i + 1)

\* The conditions an observation can carry, titled once each.
ConditionStrings ==
    {Lower(d) : d \in Descriptions} \cup {conditions[i] : i \in 1..Len(conditions)}
TitleTable == [s \in ConditionStrings |-> TitleFrom(s, 1)]
Title(s) == TitleTable[s]

\* str(n) of a natural number
RECURSIVE IntToStr(_)
IntToStr(n) ==
    IF n < 10 THEN Ch(Digits, n + 1)
    ELSE IntToStr(n \div 10) \o Ch(Digits, (n % 10) + 1)

\* str(x) of a float that was rounded to one decimal; t counts tenths.
FloatToStr(t) ==
    LET a == IF t < 0 THEN 0 - t ELSE t
    IN  (IF t < 0 THEN "-" ELSE "")
        \o IntToStr(a \div Tenths) \o "." \o IntToStr(a % Tenths)

\* ", ".join(list)
RECURSIVE Join(_, _)
Join(sep, list) ==
    IF Len(list) = 0 THEN ""
    ELSE IF Len(list) = 1 THEN list[1]
    ELSE list[1] \o sep \o Join(sep, Tail(list))

Quoted(list) == [i \in 1..Len(list) |-> "'" \o list[i] \o "'"]

\* str(list) of a list of strings
ListRepr(list) == "[" \o Join(", ", Quoted(list)) \o "]"

(***************************************************************************)
(* utils.py: classify_activity_weather_sensitivity.  The keyword sets are  *)
(* listed in the order of the source; Python iterates a set in the order   *)
(* of its hash table, which matters only where a text holds several        *)
(* keywords of one set.                                                    *)
(***************************************************************************)
OUTDOOR_ACTIVITIES ==
    <<"picnic", "hiking", "hike", "camping", "camp", "beach", "swimming",
      "swim", "bbq", "barbecue", "garden", "gardening", "cycling", "bike",
      "biking", "running", "run", "jogging", "jog", "walking", "walk",
      "fishing", "fish", "golf", "tennis", "soccer", "football", "baseball",
      "park", "outdoor", "festival", "concert", "fair", "market", "parade",
      "wedding", "ceremony", "photography", "photoshoot", "zoo",
      "amusement park", "theme park", "kayaking", "surfing", "sailing",
      "boating", "climbing", "skiing">>

INDOOR_ACTIVITIES ==
    <<"meeting", "movie", "cinema", "theater", "theatre", "museum",
      "shopping", "dinner", "lunch", "restaurant", "cafe", "coffee", "gym",
      "workout", "office", "work", "study", "library", "class", "lecture",
      "presentation", "interview", "doctor", "dentist", "appointment",
      "spa", "massage", "bowling", "arcade", "escape room", "concert hall",
      "opera">>

Sensitivity(is_sensitive, activities) ==
    [is_sensitive |-> is_sensitive, activities |-> activities]

classify_ties_not_sensitive(text) ==
    LET text_lower == Lower(text)
        Found(activity) == Contains(text_lower, activity)
        found_outdoor == SelectSeq(OUTDOOR_ACTIVITIES, Found)
        found_indoor == SelectSeq(INDOOR_ACTIVITIES, Found)
    IN  IF Len(found_outdoor) > 0 /\ Len(found_outdoor) > Len(found_indoor)
        THEN Sensitivity(TRUE, found_outdoor)
        ELSE IF Contains(text_lower, "outdoor") \/ Contains(text_lower, "outside")
        THEN Sensitivity(TRUE, <<"outdoor activity">>)
        ELSE IF Len(found_indoor) = 0 /\ Len(found_outdoor) = 0
        THEN Sensitivity(TRUE, <<>>)
        ELSE Sensitivity(Len(found_outdoor) > 0, found_outdoor)


\* A classifier in which more indoor than outdoor keywords mean not sensitive.
classify_indoor_majority_wins(text) ==
    LET text_lower == Lower(text)
        Found(activity) == Contains(text_lower, activity)
        found_outdoor == SelectSeq(OUTDOOR_ACTIVITIES, Found)
        found_indoor == SelectSeq(INDOOR_ACTIVITIES, Found)
    IN  IF Len(found_outdoor) > 0 /\ Len(found_outdoor) >= Len(found_indoor)
        THEN Sensitivity(TRUE, found_outdoor)
        ELSE IF Contains(text_lower, "outdoor") \/ Contains(text_lower, "outside")
        THEN Sensitivity(TRUE, <<"outdoor activity">>)
        ELSE IF Len(found_indoor) = 0 /\ Len(found_outdoor) = 0
        THEN Sensitivity(TRUE, <<>>)
        ELSE Sensitivity(FALSE, found_outdoor)

classify_activity_weather_sensitivity(text) ==
    LET text_lower == Lower(text)
        Found(activity) == Contains(text_lower, activity)
        found_outdoor == SelectSeq(OUTDOOR_ACTIVITIES, Found)
        found_indoor == SelectSeq(INDOOR_ACTIVITIES, Found)
    IN  IF Len(found_outdoor) > 0 /\ Len(found_outdoor) >= Len(found_indoor)
        THEN Sensitivity(TRUE, found_outdoor)
        ELSE IF Contains(text_lower, "outdoor") \/ Contains(text_lower, "outside")
        THEN Sensitivity(TRUE, <<"outdoor activity">>)
        ELSE IF Len(found_indoor) = 0 /\ Len(found_outdoor) = 0
        THEN Sensitivity(TRUE, <<>>)
        ELSE Sensitivity(Len(found_outdoor) > 0, found_outdoor)

\* The classification of each request of the model, computed once.
SensitivityTable ==
    [text \in UserRequests |-> classify_activity_weather_sensitivity(text)]

(***************************************************************************)
(* utils.py: format_weather_summary.  The degree sign is outside the       *)
(* characters of a TLA+ string and is written as an asterisk.              *)
(***************************************************************************)
DegreeSign == "*"

format_weather_summary(weather) ==
    Title(weather.condition) \o ", "
    \o FloatToStr(weather.temperature_celsius) \o DegreeSign \o "C, "
    \o IntToStr(weather.precipitation_chance) \o "% chance of rain, wind "
    \o FloatToStr(weather.wind_speed_kmh) \o " km/h"

(***************************************************************************)
(* models.py: the response contract.  model_validate takes the parsed JSON *)
(* object; a confidence counts hundredths.  generated_at, a timestamp no   *)
(* step reads, is left out.                                                *)
(***************************************************************************)
FullConfidence == 100
RiskLevels ==
    {RiskLevel.LOW, RiskLevel.MEDIUM, RiskLevel.HIGH, RiskLevel.CRITICAL}

Has(d, keys) == keys \subseteq DOMAIN d
IsConfidence(x) == 0 <= x /\ x <= FullConfidence

TaskStepValid(s) == Has(s, {"order", "description"}) /\ s.order >= 1

TaskStep(s) ==
    [order |-> s.order,
     description |-> s.description,
     time_from |-> Get(s, "time_from", None),
     time_to |-> Get(s, "time_to", None),
     location |-> Get(s, "location", None),
     weather_sensitive |-> Get(s, "weather_sensitive", FALSE),
     risk_note |-> Get(s, "risk_note", None)]

PlanOptionValid(p) ==
    /\ Has(p, {"name", "summary", "steps", "overall_risk", "risk_explanation"})
    /\ p.overall_risk \in RiskLevels
    /\ \A i \in 1..Len(p.steps) : TaskStepValid(p.steps[i])

PlanOption(p) ==
    [name |-> p.name,
     summary |-> p.summary,
     steps |-> [i \in 1..Len(p.steps) |-> TaskStep(p.steps[i])],
     overall_risk |-> p.overall_risk,
     risk_explanation |-> p.risk_explanation,
     recommended |-> Get(p, "recommended", FALSE)]

DecisionPointValid(d) == Has(d, {"decision", "reasoning"})

DecisionPoint(d) ==
    [decision |-> d.decision, reasoning |-> d.reasoning,
     data_used |-> Get(d, "data_used", None)]

TaskFeasibilityValid(f) == Has(f, {"feasible", "reason"}) /\ f.feasible \in BOOLEAN

TaskFeasibility(f) ==
    [feasible |-> f.feasible, reason |-> f.reason,
     suggestion |-> Get(f, "suggestion", None)]

WeatherRelevanceValid(r) ==
    /\ Has(r, {"is_relevant", "confidence", "explanation"})
    /\ IsConfidence(r.confidence)

WeatherRelevance(r) ==
    [is_relevant |-> r.is_relevant, confidence |-> r.confidence,
     explanation |-> r.explanation,
     outdoor_activities |-> Get(r, "outdoor_activities", <<>>)]

\* An Optional field that is left out or null
Absent(d, key) == Get(d, key, None) = None

ChronosResponseValid(data) ==
    /\ Has(data, {"original_request", "task_feasibility", "agent_confidence"})
    /\ TaskFeasibilityValid(data.task_feasibility)
    /\ IsConfidence(data.agent_confidence)
    /\ IsConfidence(Get(data, "location_confidence", FullConfidence))
    /\ Absent(data, "weather_relevance") \/ WeatherRelevanceValid(data.weather_relevance)
    /\ Absent(data, "weather_data") \/ WeatherConditionValid(data.weather_data)
    /\ Absent(data, "plan_a") \/ PlanOptionValid(data.plan_a)
    /\ Absent(data, "plan_b") \/ PlanOptionValid(data.plan_b)
    /\ LET trace == Get(data, "decision_trace", <<>>)
       IN  \A i \in 1..Len(trace) : DecisionPointValid(trace[i])

ChronosResponse(data) ==
    LET weather_relevance == Get(data, "weather_relevance", None)
        plan_a == Get(data, "plan_a", None)
        plan_b == Get(data, "plan_b", None)
        trace == Get(data, "decision_trace", <<>>)
    IN  [original_request |-> data.original_request,
         extracted_location |-> Get(data, "extracted_location", None),
         start_date |-> Get(data, "start_date", None),
         end_date |-> Get(data, "end_date", None),
         location_used |-> Get(data, "location_used", None),
         location_confidence |-> Get(data, "location_confidence", FullConfidence),
         task_feasibility |-> TaskFeasibility(data.task_feasibility),
         weather_relevance |->
             IF weather_relevance = None THEN None
             ELSE WeatherRelevance(weather_relevance),
         weather_data |-> Get(data, "weather_data", None),
         plan_a |-> IF plan_a = None THEN None ELSE PlanOption(plan_a),
         plan_b |-> IF plan_b = None THEN None ELSE PlanOption(plan_b),
         decision_trace |-> [i \in 1..Len(trace) |-> DecisionPoint(trace[i])],
         agent_confidence |-> data.agent_confidence]

\* An exception: its class name, str(e), and the classes it derives from.
NoException == [raised |-> FALSE]
Exception(error_type, message, bases) ==
    [raised |-> TRUE, error_type |-> error_type, message |-> message,
     bases |-> bases]

JSONDecodeError(message) ==
    Exception("JSONDecodeError", message, {"ValueError", "Exception"})
ValidationError(model) ==
    Exception("ValidationError", "1 validation error for " \o model,
              {"ValueError", "Exception"})

(***************************************************************************)
(* agent.py: parse_agent_response.  The collaborator's text is a prefix, a *)
(* payload and a suffix; the payload is a JSON object (json, with the      *)
(* object as data) or text that is not JSON.  The backtick is outside the  *)
(* characters of a TLA+ string: a code fence is written with apostrophes.  *)
(***************************************************************************)
Fence == "'''"
Text(prefix, payload, suffix) ==
    [prefix |-> prefix, payload |-> payload, suffix |-> suffix]
Json(data) == [json |-> TRUE, data |-> data]
NotJson == [json |-> FALSE, data |-> EmptyDict]

Parsed(raised, value, exception) ==
    [raised |-> raised, value |-> value, exception |-> exception]

parse_agent_response(result_text) ==
    LET head == LStrip(result_text.prefix)
        tail == RStrip(result_text.suffix)
        head_json ==
            IF StartsWith(head, Fence \o "json")
            THEN SubSeq(head, 7 + 1, Len(head)) ELSE head
        head_fence ==
            IF StartsWith(head_json, Fence)
            THEN SubSeq(head_json, 3 + 1, Len(head_json)) ELSE head_json
        tail_fence ==
            IF EndsWith(tail, Fence)
            THEN SubSeq(tail, 1, Len(tail) - 3) ELSE tail
        before == LStrip(head_fence)
        after == RStrip(tail_fence)
        payload == result_text.payload
    IN  IF before # "" \/ ~payload.json
        THEN Parsed(TRUE, None, JSONDecodeError(
                 "Expecting value: line 1 column 1 (char 0)"))
        ELSE IF after # ""
        THEN Parsed(TRUE, None, JSONDecodeError("Extra data"))
        ELSE IF ~ChronosResponseValid(payload.data)
        THEN Parsed(TRUE, None, ValidationError("ChronosResponse"))
        ELSE Parsed(FALSE, ChronosResponse(payload.data), NoException)

(***************************************************************************)
(* What the planning collaborator (chronos_agent.run) can do: raise, or    *)
(* answer with a text.                                                     *)
(***************************************************************************)
Raises(tag, exception) ==
    [tag |-> tag, kind |-> "raise", exception |-> exception,
     output |-> Text("", NotJson, "")]
Says(tag, output) ==
    [tag |-> tag, kind |-> "text", exception |-> NoException,
     output |-> output]

BeachSteps ==
    <<[order |-> 1, description |-> "Travel to the beach",
       time_from |-> "2026-02-08T09:00", time_to |-> "2026-02-08T10:00"],
      [order |-> 2, description |-> "Beach games and lunch",
       time_from |-> "2026-02-08T10:00", time_to |-> "2026-02-08T14:00",
       weather_sensitive |-> TRUE, risk_note |-> "Exposed to rain"]>>

Plan(name, overall_risk, recommended) ==
    [name |-> name, summary |-> "A day at the beach", steps |-> BeachSteps,
     overall_risk |-> overall_risk,
     risk_explanation |-> "Based on the forecast",
     recommended |-> recommended]

Feasible == [feasible |-> TRUE, reason |-> "The location suits the activity"]
Infeasible ==
    [feasible |-> FALSE, reason |-> "There is no beach at this location",
     suggestion |-> "Deauville"]

Object(task_feasibility, plan_a, plan_b, agent_confidence) ==
    [original_request |-> "Plan a beach day with friends",
     location_used |-> "Lyon",
     location_confidence |-> 40,
     task_feasibility |-> task_feasibility,
     weather_relevance |->
         [is_relevant |-> FALSE, confidence |-> 50,
          explanation |-> "Weather does not matter"],
     plan_a |-> plan_a,
     plan_b |-> plan_b,
     decision_trace |->
         <<[decision |-> "Recommended Plan B",
            reasoning |-> "Lower weather risk", data_used |-> None]>>,
     agent_confidence |-> agent_confidence]

TwoPlans ==
    Object(Feasible, Plan("Original Plan", RiskLevel.MEDIUM, FALSE),
           Plan("Weather-Optimized", RiskLevel.LOW, TRUE), 85)

AgentRaises ==
    {Raises("timeout", Exception("TimeoutError", "", {"OSError", "Exception"})),
     Raises("http_error",
            Exception("ModelHTTPError",
                      "status_code: 503, model_name: gemini-2.5-flash",
                      {"AgentRunError", "RuntimeError", "Exception"}))}

AgentUnparseable ==
    {Says("prose", Text("", NotJson, "")),
     Says("fence_upper_case",
          Text(Fence \o "JSON\n", Json(TwoPlans), "\n" \o Fence)),
     Says("trailing_prose", Text("", Json(TwoPlans), "\nHope this helps!"))}

AgentSchemaInvalid ==
    {Says("no_feasibility",
          Text("", Json([original_request |-> "Plan a beach day with friends",
                         agent_confidence |-> 85]), "")),
     Says("confidence_out_of_range",
          Text("", Json(Object(Feasible, None, None, 150)), "")),
     Says("unknown_risk_level",
          Text("", Json(Object(Feasible, Plan("Original Plan", "severe", FALSE),
                               None, 85)), ""))}

\* Schedules the contract accepts although a step's times are half given,
\* reversed or outside the dates asked for.
OneStep(time_from, time_to) ==
    [name |-> "Original Plan", summary |-> "A day at the beach",
     steps |-> <<[order |-> 1, description |-> "Beach games and lunch",
                  time_from |-> time_from, time_to |-> time_to]>>,
     overall_risk |-> RiskLevel.LOW,
     risk_explanation |-> "Based on the forecast",
     recommended |-> TRUE]

AgentMistimed ==
    {Says("step_without_end",
          Text("", Json(Object(Feasible, OneStep("2026-02-08T10:00", None),
                               None, 80)), "")),
     Says("step_backwards",
          Text("", Json(Object(Feasible,
                               OneStep("2026-02-08T15:00", "2026-02-08T11:00"),
                               None, 80)), "")),
     Says("step_outside_dates",
          Text("", Json(Object(Feasible,
                               OneStep("2026-03-01T09:00", "2026-03-01T10:00"),
                               None, 80)), ""))}

AgentValid ==
    {Says("two_plans_fenced",
          Text(Fence \o "json\n", Json(TwoPlans), "\n" \o Fence \o "\n")),
     Says("two_plans", Text(" ", Json(TwoPlans), "\n")),
     Says("infeasible", Text("", Json(Object(Infeasible, None, None, 90)), "")),
     Says("infeasible_with_plan",
          Text("", Json(Object(Infeasible,
                               Plan("Original Plan", RiskLevel.HIGH, FALSE),
                               None, 60)), ""))}


\* A reply that fills in every field run_chronos sets itself, each with a
\* value of its own, and reports three decisions.
Echoed ==
    [original_request |-> "Plan a beach day with friends",
     extracted_location |-> "Lyon",
     start_date |-> "2026-03-01",
     end_date |-> "2026-03-02",
     location_used |-> "Lyon",
     location_confidence |-> 40,
     task_feasibility |-> Feasible,
     weather_relevance |->
         [is_relevant |-> FALSE, confidence |-> 50,
          explanation |-> "Weather does not matter"],
     weather_data |-> Observation(5, 80, "sunny"),
     plan_a |-> Plan("Original Plan", RiskLevel.MEDIUM, FALSE),
     plan_b |-> Plan("Weather-Optimized", RiskLevel.LOW, TRUE),
     decision_trace |->
         <<[decision |-> "Checked feasibility",
            reasoning |-> "The location suits the activity",
            data_used |-> None],
           [decision |-> "Fetched weather data",
            reasoning |-> "Looked up the forecast",
            data_used |-> "sunny, 5% rain"],
           [decision |-> "Checked feasibility",
            reasoning |-> "The location suits the activity",
            data_used |-> None]>>,
     agent_confidence |-> 85]

AgentEchoes == {Says("echo", Text("", Json(Echoed), ""))}

Tags(responses) == {r.tag : r \in responses}
AgentFailures == AgentRaises \cup AgentUnparseable \cup AgentSchemaInvalid
AgentReplies == AgentFailures \cup AgentValid \cup AgentMistimed \cup AgentEchoes

(***************************************************************************)
(* agent.py: run_chronos, in the pieces its two awaits separate.  Each     *)
(* piece ends at the next await (pc names it, frame holds the locals) or   *)
(* at the return (result holds the value); call is what the get_weather    *)
(* call of the piece did.  build_agent_prompt formats the locals into the  *)
(* prompt and changes nothing.                                             *)
(***************************************************************************)
AgentError(e) ==
    [error_type |-> e.error_type,
     message |-> e.message,
     fallback_available |-> TRUE,
     suggestion |->
         "Try simplifying your request or check your API configuration."]

Finished(kind, value, exception) ==
    [kind |-> kind, value |-> value, exception |-> exception]
NoResult == Finished("none", None, NoException)

NoCall(c) == Outcome("none", FALSE, None, c, FALSE, FALSE, FALSE)

Step(pc, frame, call, result) ==
    [pc |-> pc, frame |-> frame, call |-> call, result |-> result]

\* A handler that catches the errors of parsing only.
run_chronos_except_value_error(frame, call, e) ==
    IF "ValueError" \in e.bases
    THEN Step("return", frame, call, Finished("AgentError", AgentError(e), e))
    ELSE Step("return", frame, call, Finished("raised", None, e))

\* except Exception as e: return AgentError(...)
run_chronos_except(frame, call, e) ==
    IF "Exception" \in e.bases
    THEN Step("return", frame, call, Finished("AgentError", AgentError(e), e))
    ELSE Step("return", frame, call, Finished("raised", None, e))

\* From the return of get_weather to the await of the collaborator.
run_chronos_weather(frame, call) ==
    IF call.raised
    THEN run_chronos_except(frame, call, ValidationError("WeatherCondition"))
    ELSE Step("planning",
              [frame EXCEPT
                 !.weather_data = call.weather,
                 !.decision_trace = Append(@,
                     [decision |-> "Fetched weather data",
                      reasoning |->
                          "Weather is relevant for outdoor activities: "
                          \o ListRepr(frame.weather_relevance.outdoor_activities),
                      data_used |-> format_weather_summary(call.weather)])],
              call, NoResult)


\* A pipeline that looks the weather up for the last day of the range.
run_chronos_begin_last_day(c, t, user_request, location, start_date, end_date, simulation_mode, h) ==
    LET stripped == Strip(location)
        classified == SensitivityTable[user_request]
        outdoor_activities == classified.activities
        frame ==
            [user_request |-> user_request, location |-> stripped,
             location_given |-> location,
             start_date |-> start_date, end_date |-> end_date,
             simulation_mode |-> simulation_mode,
             weather_relevance |->
                 [is_relevant |-> classified.is_sensitive,
                  confidence |-> IF Len(outdoor_activities) > 0 THEN 90 ELSE 70,
                  explanation |-> "Identified outdoor activities",
                  outdoor_activities |-> outdoor_activities],
             weather_data |-> None, decision_trace |-> <<>>]
    IN  IF classified.is_sensitive
        THEN LET call == get_weather_begin(c, t, stripped, end_date,
                                           simulation_mode, h)
             IN  IF call.pc = "await"
                 THEN Step("fetching", frame, call, NoResult)
                 ELSE run_chronos_weather(frame, call)
        ELSE Step("planning",
                  [frame EXCEPT !.decision_trace = Append(@,
                     [decision |-> "Skipped weather lookup",
                      reasoning |->
                          "Activity appears to be primarily indoor or weather-independent",
                      data_used |-> None])],
                  NoCall(c), NoResult)

\* From the call to the first await, or to the return.
run_chronos_begin(c, t, user_request, location, start_date, end_date, simulation_mode, h) ==
    LET stripped == Strip(location)
        classified == SensitivityTable[user_request]
        is_weather_relevant == classified.is_sensitive
        outdoor_activities == classified.activities
        weather_relevance ==
            [is_relevant |-> is_weather_relevant,
             confidence |-> IF Len(outdoor_activities) > 0 THEN 90 ELSE 70,
             explanation |->
                 IF Len(outdoor_activities) > 0
                 THEN "Identified outdoor activities: "
                      \o Join(", ", outdoor_activities)
                 ELSE "No specific outdoor activities identified, but weather may still be relevant",
             outdoor_activities |-> outdoor_activities]
        frame ==
            [user_request |-> user_request, location |-> stripped,
             location_given |-> location,
             start_date |-> start_date, end_date |-> end_date,
             simulation_mode |-> simulation_mode,
             weather_relevance |-> weather_relevance,
             weather_data |-> None, decision_trace |-> <<>>]
    IN  IF is_weather_relevant
        THEN LET call == get_weather_begin(c, t, stripped, start_date,
                                           simulation_mode, h)
             IN  IF call.pc = "await"
                 THEN Step("fetching", frame, call, NoResult)
                 ELSE run_chronos_weather(frame, call)
        ELSE Step("planning",
                  [frame EXCEPT !.decision_trace = Append(@,
                     [decision |-> "Skipped weather lookup",
                      reasoning |->
                          "Activity appears to be primarily indoor or weather-independent",
                      data_used |-> None])],
                  NoCall(c), NoResult)

\* From the answer of the live source to the await of the collaborator.
run_chronos_fetched(c, t, frame, resp, h) ==
    run_chronos_weather(frame,
        get_weather_resume(c, t, frame.location, frame.start_date, resp, h))


\* An enrichment that keeps the location the collaborator reported.
run_chronos_resume_trusting(c, frame, reply) ==
    IF reply.kind = "raise"
    THEN run_chronos_except(frame, NoCall(c), reply.exception)
    ELSE LET parsed == parse_agent_response(reply.output)
         IN  IF parsed.raised
             THEN run_chronos_except(frame, NoCall(c), parsed.exception)
             ELSE Step("return", frame, NoCall(c),
                       Finished("ChronosResponse",
                           [parsed.value EXCEPT
                              !.extracted_location = frame.location,
                              !.start_date = frame.start_date,
                              !.end_date = frame.end_date,
                              !.weather_relevance = frame.weather_relevance,
                              !.weather_data = frame.weather_data,
                              !.decision_trace = frame.decision_trace \o @,
                              !.location_confidence = FullConfidence],
                           NoException))


\* An enrichment that puts the pipeline's records after the collaborator's.
run_chronos_resume_appending(c, frame, reply) ==
    IF reply.kind = "raise"
    THEN run_chronos_except(frame, NoCall(c), reply.exception)
    ELSE LET parsed == parse_agent_response(reply.output)
         IN  IF parsed.raised
             THEN run_chronos_except(frame, NoCall(c), parsed.exception)
             ELSE Step("return", frame, NoCall(c),
                       Finished("ChronosResponse",
                           [parsed.value EXCEPT
                              !.extracted_location = frame.location,
                              !.start_date = frame.start_date,
                              !.end_date = frame.end_date,
                              !.weather_relevance = frame.weather_relevance,
                              !.weather_data = frame.weather_data,
                              !.decision_trace = @ \o frame.decision_trace,
                              !.location_used = frame.location,
                              !.location_confidence = FullConfidence],
                           NoException))

\* From the collaborator's answer to the return.
run_chronos_resume(c, frame, reply) ==
    IF reply.kind = "raise"
    THEN run_chronos_except(frame, NoCall(c), reply.exception)
    ELSE LET parsed == parse_agent_response(reply.output)
         IN  IF parsed.raised
             THEN run_chronos_except(frame, NoCall(c), parsed.exception)
             ELSE Step("return", frame, NoCall(c),
                       Finished("ChronosResponse",
                           [parsed.value EXCEPT
                              !.extracted_location = frame.location,
                              !.start_date = frame.start_date,
                              !.end_date = frame.end_date,
                              !.weather_relevance = frame.weather_relevance,
                              !.weather_data = frame.weather_data,
                              !.decision_trace = frame.decision_trace \o @,
                              !.location_used = frame.location,
                              !.location_confidence = FullConfidence],
                           NoException))

(***************************************************************************)
(* The planning pipeline as a state machine: one run_chronos at a time, as *)
(* the host runs each to completion, over the cache it shares.             *)
(***************************************************************************)
Waiting(r) == [pc |-> r.pc, frame |-> r.frame]

ReturnedBy(r, reply) ==
    [returned |-> TRUE, kind |-> r.result.kind, value |-> r.result.value,
     exception |-> r.result.exception, frame |-> r.frame, reply |-> reply]

NoReply == Raises("none", NoException)

\* The step r of run_chronos takes effect.
Proceeded(r, reply) ==
    /\ cache' = r.call.cache
    /\ origin' =
         IF r.call.pc = "none" THEN origin
         ELSE OriginAfter(origin, r.call.cache,
                          CacheKey(r.frame.location, r.frame.start_date),
                          IF r.call.raised \/ r.call.pc = "await" THEN "kept"
                          ELSE IF r.call.synthesized THEN "synthesized"
                          ELSE IF r.call.fetched THEN "live" ELSE "kept")
    /\ IF r.pc = "return"
       THEN run' = NoRun /\ out' = ReturnedBy(r, reply)
       ELSE run' = Waiting(r) /\ out' = NoOut
    /\ UNCHANGED <<now, task, ret, pyhash, pool, rvars>>

Proceed(r, reply) == Proceeded(r, reply) /\ UNCHANGED avars

\* The host calls run_chronos with the form's fields.
CallRunChronos(user_request, location, start_date, end_date, simulation_mode) ==
    /\ run.pc = "idle"
    /\ Proceed(run_chronos_begin(cache, now, user_request, location,
                                 start_date, end_date, simulation_mode,
                                 pyhash), NoReply)

\* The live source answers the get_weather call of the invocation.
WeatherAnswers(resp) ==
    /\ run.pc = "fetching"
    /\ Proceed(run_chronos_fetched(cache, now, run.frame, resp, pyhash),
               NoReply)

\* The collaborator answers, or fails.
AgentAnswers(reply) ==
    /\ run.pc = "planning"
    /\ Proceed(run_chronos_resume(cache, run.frame, reply), reply)

InitChronos == InitWeather /\ pool = {} /\ RiskIdle /\ PipelineIdle /\ AuxIdle

NextChronos ==
    \/ \E user_request \in UserRequests, location \in RawLocations,
          dates \in DateRanges, simulation_mode \in BOOLEAN :
            CallRunChronos(user_request, location, dates[1], dates[2],
                           simulation_mode)
    \/ \E resp \in LiveResponses : WeatherAnswers(resp)
    \/ \E reply \in AgentReplies : AgentAnswers(reply)

SpecChronos == InitChronos /\ [][NextChronos]_vars

(***************************************************************************)
(* utils.py: format_risk_explanation.                                      *)
(***************************************************************************)
format_risk_explanation(level, weather) ==
    LET condition_lower == Lower(weather.condition)
        rain ==
            IF weather.precipitation_chance >= 50
            THEN <<"High precipitation chance ("
                   \o IntToStr(weather.precipitation_chance) \o "%)">>
            ELSE <<>>
        wind ==
            IF weather.wind_speed_kmh >= 25 * Tenths
            THEN <<"Strong winds ("
                   \o FloatToStr(weather.wind_speed_kmh) \o " km/h)">>
            ELSE <<>>
        sky ==
            IF Contains(condition_lower, "rain")
               \/ Contains(condition_lower, "storm")
            THEN <<"Unfavorable conditions (" \o weather.condition \o ")">>
            ELSE <<>>
        explanations == rain \o wind \o sky
    IN  IF Len(explanations) = 0
        THEN IF level = RiskLevel.LOW
             THEN "Weather conditions are favorable for outdoor activities."
             ELSE "Minor weather concerns that shouldn't significantly impact plans."
        ELSE Join(" | ", explanations)

(***************************************************************************)
(* agent.py: generate_fallback_response, the rule-based planner.  No step  *)
(* of run_chronos calls it.  The dash of its feasibility reason is outside *)
(* the characters of a TLA+ string and is written as a hyphen.             *)
(***************************************************************************)
\* risk_level (agent.py 399-403)
fallback_risk_level(weather_data) ==
    IF weather_data # None THEN calculate_weather_risk(weather_data)
    ELSE RiskLevel.MEDIUM

\* The step both plans hold, without its risk_note.
fallback_proceed(user_request, date) ==
    [order |-> 1,
     description |-> "Proceed with: " \o user_request,
     time_from |-> date \o "T09:00",
     time_to |-> date \o "T17:00",
     weather_sensitive |-> TRUE]

\* Plan B with both steps numbered 0 and 1.
fallback_steps_b_from_zero(user_request, date) ==
    <<[order |-> 0,
       description |-> "Check weather before leaving",
       time_from |-> date \o "T08:00",
       time_to |-> date \o "T08:30",
       weather_sensitive |-> FALSE],
      [fallback_proceed(user_request, date) EXCEPT !.order = 1]
        @@ [risk_note |-> "Have a backup plan ready"]>>

\* plan_b.steps (agent.py 433-449)
fallback_steps_b(user_request, date) ==
    <<[order |-> 1,
       description |-> "Check weather before leaving",
       time_from |-> date \o "T08:00",
       time_to |-> date \o "T08:30",
       weather_sensitive |-> FALSE],
      [fallback_proceed(user_request, date) EXCEPT !.order = 2]
        @@ [risk_note |-> "Have a backup plan ready"]>>

\* A Plan B that is always LOW.
fallback_risk_b_always_low(risk_level) == RiskLevel.LOW

\* plan_b.overall_risk (agent.py 450)
fallback_risk_b(risk_level) ==
    IF risk_level # RiskLevel.CRITICAL THEN RiskLevel.LOW
    ELSE RiskLevel.MEDIUM

\* A Plan B that is always recommended.
fallback_recommended_b_always(risk_level) == TRUE

\* plan_a.recommended and plan_b.recommended (agent.py 427, 452)
fallback_recommended_a(risk_level) == risk_level = RiskLevel.LOW
fallback_recommended_b(risk_level) == risk_level # RiskLevel.LOW

\* The constructors validate what they are given: a ValidationError leaves
\* the function where one of them rejects its arguments.
generate_fallback_response(user_request, location, date, weather_data) ==
    LET risk_level == fallback_risk_level(weather_data)
        plan_a ==
            [name |-> "Original Plan",
             summary |-> "Proceed with your plan as requested",
             steps |-> <<fallback_proceed(user_request, date)
                         @@ [risk_note |-> "Weather risk: " \o risk_level]>>,
             overall_risk |-> risk_level,
             risk_explanation |->
                 IF weather_data # None
                 THEN format_risk_explanation(risk_level, weather_data)
                 ELSE "Weather data unavailable",
             recommended |-> fallback_recommended_a(risk_level)]
        plan_b ==
            [name |-> "Weather-Conscious Alternative",
             summary |-> "Consider weather conditions when proceeding",
             steps |-> fallback_steps_b(user_request, date),
             overall_risk |-> fallback_risk_b(risk_level),
             risk_explanation |-> "Taking precautions reduces risk",
             recommended |-> fallback_recommended_b(risk_level)]
        data ==
            [original_request |-> user_request,
             extracted_location |-> location,
             start_date |-> date,
             end_date |-> date,
             task_feasibility |->
                 [feasible |-> TRUE,
                  reason |-> "Fallback mode - feasibility not evaluated",
                  suggestion |-> None],
             weather_relevance |->
                 [is_relevant |-> TRUE, confidence |-> 50,
                  explanation |->
                      "Fallback mode - assuming weather may be relevant",
                  outdoor_activities |-> <<>>],
             weather_data |-> weather_data,
             plan_a |-> plan_a,
             plan_b |-> plan_b,
             decision_trace |->
                 <<[decision |-> "Used fallback planning",
                    reasoning |->
                        "LLM agent unavailable, using rule-based planning",
                    data_used |-> None]>>,
             agent_confidence |-> 30]
    IN  IF ChronosResponseValid(data)
        THEN Parsed(FALSE, ChronosResponse(data), NoException)
        ELSE Parsed(TRUE, None, ValidationError("TaskStep"))

(***************************************************************************)
(* The rule-based planner applied to its arguments: a request, a location, *)
(* a date, and an observation or none.                                     *)
(***************************************************************************)
Answer(r) ==
    [returned |-> TRUE, raised |-> r.raised, value |-> r.value,
     exception |-> r.exception]

OthersIdle ==
    /\ WeatherIdle
    /\ RiskIdle
    /\ PipelineIdle
    /\ watch = NoWatch
    /\ screen = NoScreen

FallbackObservations ==
    {Observation(p, w, c) :
        p \in PrecipSamples, w \in WindSamples, c \in RiskConditions}

InitFallback ==
    /\ given \in [function : {"generate_fallback_response"},
                  user_request : UserRequests,
                  location : Locations,
                  date : Dates,
                  weather_data : {None} \cup FallbackObservations]
    /\ answer = NoAnswer
    /\ OthersIdle

CallFallback ==
    /\ given.function = "generate_fallback_response"
    /\ ~answer.returned
    /\ answer' = Answer(generate_fallback_response(
                     given.user_request, given.location, given.date,
                     given.weather_data))
    /\ UNCHANGED <<given, watch, screen, wvars, rvars, pvars>>

NextFallback == CallFallback

SpecFallback == InitFallback /\ [][NextFallback]_vars

(***************************************************************************)
(* The simulated weather: what is claimed of it.                           *)
(***************************************************************************)
SameReadings(a, b) ==
    /\ a.temperature_celsius = b.temperature_celsius
    /\ a.condition = b.condition
    /\ a.precipitation_chance = b.precipitation_chance
    /\ a.wind_speed_kmh = b.wind_speed_kmh
    /\ a.humidity_percent = b.humidity_percent

FailureTags == Tags(AgentFailures)

\* C1: whatever the inputs, the weather source and the collaborator do, an
\* invocation of run_chronos returns one value, a ChronosResponse or an
\* AgentError, and lets no exception out; where a step raised (the
\* collaborator's call, or the parsing and validation of its text) the value
\* is an AgentError carrying the exception's class name and message, and
\* where none did it is a ChronosResponse.
C1_RunChronosReturnsResponseOrError ==
    out.returned =>
        /\ out.kind \in {"ChronosResponse", "AgentError"}
        /\ out.reply.tag \in FailureTags => out.exception.raised
        /\ out.reply.kind = "raise" => out.exception = out.reply.exception
        /\ IF out.exception.raised
           THEN /\ out.kind = "AgentError"
                /\ out.value.error_type = out.exception.error_type
                /\ out.value.message = out.exception.message
           ELSE out.kind = "ChronosResponse"

\* run_chronos fetched the weather from the live source, the collaborator's
\* call then raised, and the invocation returned an AgentError.
C1_Witness ==
    /\ out.returned
    /\ out.reply.tag = "http_error"
    /\ out.kind = "AgentError"
    /\ out.value.error_type = "ModelHTTPError"
    /\ out.frame.weather_data # None
    /\ ~out.frame.weather_data.is_simulated

\* C2, as claimed: where the collaborator's call raises or times out, or its
\* text fails JSON parsing or schema validation, run_chronos returns the
\* response of generate_fallback_response and never an AgentError.
C2_CollaboratorFailureFallsBack ==
    (out.returned /\ out.reply.tag \in FailureTags) =>
        /\ out.kind = "ChronosResponse"
        /\ out.value = generate_fallback_response(
               out.frame.user_request, out.frame.location,
               out.frame.start_date, out.frame.weather_data).value

\* The collaborator's call timed out and run_chronos returned an AgentError.
C2_Witness ==
    /\ out.returned
    /\ out.reply.tag = "timeout"
    /\ out.kind = "AgentError"
    /\ out.value.error_type = "TimeoutError"

\* C3, as claimed: a returned ChronosResponse whose task_feasibility.feasible
\* is false has no plan_a, no plan_b and a weather_relevance that is not
\* relevant; a payload with feasible false and a plan is not returned as it
\* is.
C3_InfeasibleHasNoPlans ==
    (out.returned /\ out.kind = "ChronosResponse"
       /\ ~out.value.task_feasibility.feasible) =>
        /\ out.value.plan_a = None
        /\ out.value.plan_b = None
        /\ ~out.value.weather_relevance.is_relevant

\* The collaborator answered infeasible together with a plan_a, and the
\* returned response holds that plan.
C3_Witness ==
    /\ out.returned
    /\ out.reply.tag = "infeasible_with_plan"
    /\ out.kind = "ChronosResponse"
    /\ ~out.value.task_feasibility.feasible
    /\ out.value.plan_a # None

(***************************************************************************)
(* The rule-based planner: what is claimed of it.                          *)
(***************************************************************************)
Orders(plan) == [i \in 1..Len(plan.steps) |-> plan.steps[i].order]
Planned == given.function = "generate_fallback_response" /\ answer.returned

\* C12: generate_fallback_response raises for no request, location and
\* date, with an observation or without one, and returns a response with a
\* plan_a whose one step has order 1, a plan_b whose two steps have orders 1
\* and 2, and an agent_confidence of 0.3.
C12_FallbackIsTotal ==
    Planned =>
        /\ ~answer.raised
        /\ answer.value.plan_a # None
        /\ answer.value.plan_b # None
        /\ Orders(answer.value.plan_a) = <<1>>
        /\ Orders(answer.value.plan_b) = <<1, 2>>
        /\ answer.value.agent_confidence = 30

\* The planner has answered a call without an observation.
C12_Witness ==
    /\ Planned
    /\ given.weather_data = None
    /\ ~answer.raised
    /\ Len(answer.value.plan_b.steps) = 2

(***************************************************************************)
(* The weather source: what is claimed of it.                              *)
(***************************************************************************)
IsObservation(w) ==
    DOMAIN w = {"temperature_celsius", "condition", "precipitation_chance",
                "wind_speed_kmh", "humidity_percent", "forecast_date",
                "location", "is_simulated"}
RetKey == <<Lower(ret.location), ret.date>>

\* C4, as claimed: get_weather returns an observation and never raises,
\* whatever the live source does, and every live failure listed (an
\* exception, an unusable body, a forecast day with missing fields) is a miss
\* answered with a synthesized observation.
C4_EveryListedFailureIsAMiss ==
    ret.returned =>
        /\ ~ret.raised
        /\ IsObservation(ret.weather)
        /\ ret.live \in Tags(LiveExceptions \cup LiveUnusable \cup LiveMissingFields)
            => ret.synthesized /\ ret.weather.is_simulated

\* C4, amended: get_weather returns an observation and never raises; an
\* exception or a body without a usable forecast day or with a value out of
\* range is a miss answered with a synthesized observation; a forecast day
\* whose hourly samples are missing is no miss: the missing fields take the
\* code's defaults (0 % rain, 10 km/h wind, 65 % humidity) and the
\* observation is returned as live.
C4_FailuresAreMissesMissingFieldsDefaulted ==
    ret.returned =>
        /\ ~ret.raised
        /\ IsObservation(ret.weather)
        /\ ret.live \in Tags(LiveExceptions \cup LiveUnusable)
            => ret.synthesized /\ ret.weather.is_simulated
        /\ ret.live \in Tags(LiveMissingFields)
            => /\ ~ret.synthesized
               /\ ~ret.weather.is_simulated
               /\ ret.weather.precipitation_chance = 0
               /\ ret.weather.wind_speed_kmh = 10 * Tenths
               /\ ret.weather.humidity_percent = 65

C4_Witness ==
    /\ ret.returned
    /\ ret.live = "day_without_fields"
    /\ ret.weather.condition = "partly cloudy"

\* C5: is_simulated is TRUE exactly on the observations that were
\* synthesized and FALSE exactly on those a live fetch produced, in the cache
\* and in every value returned, cache hits included.
C5_ProvenanceAccurate ==
    /\ \A k \in DOMAIN cache :
          cache[k].weather.is_simulated = (origin[k] = "synthesized")
    /\ (ret.returned /\ ~ret.raised) =>
          /\ ret.weather.is_simulated = (ret.origin = "synthesized")
          /\ (ret.fetched /\ ret.synthesized) => ret.weather.is_simulated

C5_Witness ==
    /\ ret.returned
    /\ ~ret.use_simulation
    /\ ret.fetched
    /\ ret.synthesized
    /\ ret.weather.is_simulated
    /\ \E k \in DOMAIN cache : origin[k] = "live"

\* A step in which coroutine id calls get_weather(location, date, ...).
CallOf(id, location, date) ==
    /\ task[id].pc = "idle"
    /\ \/ /\ ret'.returned
          /\ ret'.task = id
          /\ ret'.location = location
          /\ ret'.date = date
       \/ /\ task'[id].pc = "fetching"
          /\ task'[id].location = location
          /\ task'[id].date = date

\* C6: a call for a key whose entry is younger than the TTL returns the
\* stored observation, whatever the letter case of the location, without a
\* live fetch, a synthesis or a change of the cache.
C6_FreshEntryIsReturned ==
    [][\A id \in TaskIds, location \in Locations, date \in Dates :
        LET key == <<Lower(location), date>>
        IN  (/\ CallOf(id, location, date)
             /\ key \in DOMAIN cache
             /\ now - cache[key].cache_time < CACHE_TTL_MINUTES)
            => /\ ret'.returned
               /\ ~ret'.raised
               /\ ret'.weather = cache[key].weather
               /\ ~ret'.fetched
               /\ ~ret'.synthesized
               /\ cache' = cache]_vars

C6_Witness ==
    /\ ret.returned
    /\ ~ret.fetched
    /\ ~ret.synthesized
    /\ ret.weather.is_simulated
    /\ ret.weather.location # ret.location
    /\ now > cache[RetKey].cache_time

\* C7: a call for a key whose entry is at least TTL old evicts the entry and
\* synthesizes or fetches anew; when get_weather returns a new observation,
\* that observation is in the cache under the key with the time of the store.
C7_StaleEntryIsReplaced ==
    [][\A id \in TaskIds, location \in Locations, date \in Dates :
        LET key == <<Lower(location), date>>
        IN  /\ (/\ CallOf(id, location, date)
                /\ key \in DOMAIN cache
                /\ now - cache[key].cache_time >= CACHE_TTL_MINUTES)
               => IF ret'.returned
                  THEN /\ ret'.synthesized
                       /\ ret'.evicted
                       /\ cache'[key] =
                            [weather |-> ret'.weather, cache_time |-> now]
                       /\ cache'[key].cache_time > cache[key].cache_time
                  ELSE /\ key \notin DOMAIN cache'
                       /\ task'[id].evicted
            /\ (/\ task[id].pc = "fetching"
                /\ task[id].location = location
                /\ task[id].date = date
                /\ task'[id].pc = "idle")
               => /\ ret'.returned
                  /\ ret'.fetched
                  /\ cache'[key] =
                        [weather |-> ret'.weather, cache_time |-> now]]_vars

C7_Witness ==
    /\ ret.returned
    /\ ret.evicted
    /\ ret.fetched
    /\ cache[RetKey] = [weather |-> ret.weather, cache_time |-> now]
    /\ now >= CACHE_TTL_MINUTES

\* C8: every observation returned or cached has its precipitation chance
\* and its humidity in 0..100 and a wind speed of at least 0.
InRange(w) ==
    /\ 0 <= w.precipitation_chance /\ w.precipitation_chance <= 100
    /\ 0 <= w.humidity_percent /\ w.humidity_percent <= 100
    /\ w.wind_speed_kmh >= 0

C8_ObservationsInRange ==
    /\ \A k \in DOMAIN cache : InRange(cache[k].weather)
    /\ (ret.returned /\ ~ret.raised) => InRange(ret.weather)

C8_Witness ==
    /\ ret.returned
    /\ ret.live = "rain_out_of_range"
    /\ \E k \in DOMAIN cache : origin[k] = "live"

(***************************************************************************)
(* The risk scorer: what is claimed of it.                                 *)
(***************************************************************************)
Count(thresholds, x) == Cardinality({th \in thresholds : x >= th})

\* The scorer as the specification's table states it.
ReferenceScore(w) ==
    LET text == Lower(w.condition)
    IN  10 * Count({20, 40, 60, 80}, w.precipitation_chance)
        + 5 * Count({15 * Tenths, 25 * Tenths}, w.wind_speed_kmh)
        + 10 * Count({40 * Tenths}, w.wind_speed_kmh)
        + (IF \E kw \in {"thunderstorm", "storm", "heavy rain", "hail", "severe"} :
                 Contains(text, kw) THEN 40
           ELSE IF Contains(text, "rain") THEN 15
           ELSE IF Contains(text, "snow") THEN 20
           ELSE 0)

ReferenceLevel(score) ==
    CASE score >= 60 -> "critical"
      [] score < 60 /\ score >= 40 -> "high"
      [] score < 40 /\ score >= 20 -> "medium"
      [] OTHER -> "low"

\* C9: calculate_weather_risk gives every observation the level of the
\* reference score (precipitation, wind and condition points added, mapped at
\* 60, 40 and 20); precipitation 85 with wind 10 and thunderstorms is
\* CRITICAL, precipitation 15 with wind 5 and sunny is LOW.
C9_RiskMatchesReference ==
    /\ risk # Unscored => risk = ReferenceLevel(ReferenceScore(obs))
    /\ (risk # Unscored /\ obs = Observation(85, 10 * Tenths, "thunderstorms"))
          => risk = "critical"
    /\ (risk # Unscored /\ obs = Observation(15, 5 * Tenths, "sunny"))
          => risk = "low"

C9_Witness ==
    /\ obs = Observation(85, 10 * Tenths, "thunderstorms")
    /\ risk = "critical"

Rank(level) ==
    CASE level = "low" -> 0
      [] level = "medium" -> 1
      [] level = "high" -> 2
      [] level = "critical" -> 3

\* C10: of two observations that differ only in the precipitation chance,
\* the one with the higher chance has a RiskLevel that is not lower; with
\* equal chances the levels are equal.
C10_RiskMonotonicInPrecipitation ==
    other.scored =>
        /\ other.precipitation_chance >= obs.precipitation_chance
              => Rank(other.risk) >= Rank(risk)
        /\ other.precipitation_chance <= obs.precipitation_chance
              => Rank(other.risk) <= Rank(risk)

C10_Witness ==
    /\ other.scored
    /\ other.precipitation_chance > obs.precipitation_chance
    /\ Rank(other.risk) > Rank(risk)

(***************************************************************************)
(* The rule-based planner: the risks and the recommendation of its plans.  *)
(***************************************************************************)
PlanARisk == answer.value.plan_a.overall_risk
PlanBRisk == answer.value.plan_b.overall_risk
UnmitigatedRisk ==
    IF given.weather_data = None THEN "medium"
    ELSE ReferenceLevel(ReferenceScore(given.weather_data))

\* C13, as claimed: Plan A carries the risk of the observation (MEDIUM
\* without one) and Plan B the level just below Plan A's, except that Plan B
\* is MEDIUM where Plan A is CRITICAL.
C13_PlanBOneLevelLower ==
    Planned =>
        /\ PlanARisk = UnmitigatedRisk
        /\ IF PlanARisk = "critical" THEN PlanBRisk = "medium"
           ELSE Rank(PlanBRisk) = Rank(PlanARisk) - 1

\* C13, amended: Plan A carries the risk of the observation (MEDIUM without
\* one); Plan B is MEDIUM where Plan A is CRITICAL and LOW in every other
\* case, so it is never above Plan A, level with it at LOW and two levels
\* below it at HIGH.
C13_PlanBLowUnlessCritical ==
    Planned =>
        /\ PlanARisk = UnmitigatedRisk
        /\ PlanBRisk = (IF PlanARisk = "critical" THEN "medium" ELSE "low")
        /\ Rank(PlanBRisk) <= Rank(PlanARisk)

\* The planner has answered for an observation of CRITICAL risk.
C13_Witness ==
    /\ Planned
    /\ given.weather_data # None
    /\ PlanARisk = "critical"
    /\ PlanBRisk = "medium"

\* C14: exactly one of the two plans is recommended: Plan A where its risk
\* is LOW, Plan B otherwise; and the recommended plan's risk is not above
\* the other plan's.
C14_OnePlanRecommended ==
    Planned =>
        LET a == answer.value.plan_a
            b == answer.value.plan_b
        IN  /\ a.recommended # b.recommended
            /\ a.recommended <=> a.overall_risk = "low"
            /\ a.recommended => Rank(a.overall_risk) <= Rank(b.overall_risk)
            /\ b.recommended => Rank(b.overall_risk) <= Rank(a.overall_risk)

\* The planner has answered for an observation of LOW risk and recommends
\* Plan A.
C14_Witness ==
    /\ Planned
    /\ given.weather_data # None
    /\ answer.value.plan_a.recommended
    /\ ~answer.value.plan_b.recommended
    /\ PlanARisk = "low"

(***************************************************************************)
(* The planning pipeline: the times of the steps it returns.               *)
(***************************************************************************)
\* The day (YYYYMMDD) and the time of day (HHMM) of "YYYY-MM-DDTHH:MM", as
\* numbers; a date "YYYY-MM-DD" has a day only.
DayNumber(s) ==
    DigitsVal(SubSeq(s, 1, 4), 4) * 10000
    + DigitsVal(SubSeq(s, 6, 7), 2) * 100
    + DigitsVal(SubSeq(s, 9, 10), 2)
ClockNumber(s) ==
    DigitsVal(SubSeq(s, 12, 13), 2) * 100 + DigitsVal(SubSeq(s, 15, 16), 2)

NotAfter(a, b) ==
    \/ DayNumber(a) < DayNumber(b)
    \/ DayNumber(a) = DayNumber(b) /\ ClockNumber(a) <= ClockNumber(b)

WithinDates(t, start_date, end_date) ==
    DayNumber(start_date) <= DayNumber(t) /\ DayNumber(t) <= DayNumber(end_date)

StepTimesSound(step, start_date, end_date) ==
    IF IsNone(step.time_from) \/ IsNone(step.time_to)
    THEN IsNone(step.time_from) /\ IsNone(step.time_to)
    ELSE /\ NotAfter(step.time_from, step.time_to)
         /\ WithinDates(step.time_from, start_date, end_date)
         /\ WithinDates(step.time_to, start_date, end_date)

PlanTimesSound(plan, start_date, end_date) ==
    plan # None =>
        \A i \in 1..Len(plan.steps) :
            StepTimesSound(plan.steps[i], start_date, end_date)

\* C15, as claimed: in every ChronosResponse that run_chronos returns each
\* step has time_from and time_to both null, or both given with time_from
\* not after time_to and both within start_date..end_date; a collaborator's
\* schedule that breaks this is not returned as a response.
C15_StepTimesSound ==
    (out.returned /\ out.kind = "ChronosResponse") =>
        /\ PlanTimesSound(out.value.plan_a, out.value.start_date,
                          out.value.end_date)
        /\ PlanTimesSound(out.value.plan_b, out.value.start_date,
                          out.value.end_date)

\* The collaborator scheduled a step from 15:00 to 11:00 and the returned
\* response holds it.
C15_Witness ==
    /\ out.returned
    /\ out.reply.tag = "step_backwards"
    /\ out.kind = "ChronosResponse"
    /\ out.value.plan_a.steps[1].time_from = "2026-02-08T15:00"
    /\ out.value.plan_a.steps[1].time_to = "2026-02-08T11:00"

(***************************************************************************)
(* Dates: datetime arithmetic, strftime and parse_relative_date.           *)
(***************************************************************************)
DaySpan == 20

Date(year, month, day) == [year |-> year, month |-> month, day |-> day]

IsLeap(year) ==
    year % 4 = 0 /\ (year % 100 # 0 \/ year % 400 = 0)

DaysInMonth(year, month) ==
    IF month = 2 THEN (IF IsLeap(year) THEN 29 ELSE 28)
    ELSE IF month \in {4, 6, 9, 11} THEN 30 ELSE 31

DaysBeforeYear(year) ==
    LET y == year - 1
    IN  y * 365 + y \div 4 - y \div 100 + y \div 400

RECURSIVE DaysBeforeMonth(_, _)
DaysBeforeMonth(year, month) ==
    IF month = 1 THEN 0
    ELSE DaysBeforeMonth(year, month - 1) + DaysInMonth(year, month - 1)

\* date.toordinal(): 0001-01-01 is day 1
toordinal(d) == DaysBeforeYear(d.year) + DaysBeforeMonth(d.year, d.month) + d.day

\* date.weekday(): Monday is 0, Saturday 5, Sunday 6
weekday(d) == (toordinal(d) + 6) % 7

NextDay(d) ==
    IF d.day < DaysInMonth(d.year, d.month) THEN Date(d.year, d.month, d.day + 1)
    ELSE IF d.month < 12 THEN Date(d.year, d.month + 1, 1)
    ELSE Date(d.year + 1, 1, 1)

\* d + timedelta(days=days), days >= 0
RECURSIVE timedelta(_, _)
timedelta(d, days) ==
    IF days = 0 THEN d ELSE timedelta(NextDay(d), days - 1)

\* "%04d" and "%02d"
RECURSIVE ZeroPad(_, _)
ZeroPad(s, width) == IF Len(s) >= width THEN s ELSE ZeroPad("0" \o s, width)

\* d.strftime("%Y-%m-%d")
strftime(d) ==
    ZeroPad(IntToStr(d.year), 4) \o "-" \o ZeroPad(IntToStr(d.month), 2)
    \o "-" \o ZeroPad(IntToStr(d.day), 2)

\* s matches \d{4}-\d{2}-\d{2}
IsDatePattern(s) ==
    /\ Len(s) = 10
    /\ \A i \in {1, 2, 3, 4, 6, 7, 9, 10} : IsDigit(Ch(s, i))
    /\ Ch(s, 5) = "-"
    /\ Ch(s, 8) = "-"

\* re.search(date_pattern, text): the leftmost match, or None
re_search_date(text) ==
    LET at == {i \in 1..(Len(text) - 9) : IsDatePattern(SubSeq(text, i, i + 9))}
    IN  IF at = {} THEN None
        ELSE LET i == CHOOSE j \in at : \A k \in at : j <= k
             IN  SubSeq(text, i, i + 9)

day_names ==
    <<"monday", "tuesday", "wednesday", "thursday", "friday", "saturday",
      "sunday">>

planning_keywords == <<"plan", "schedule", "organize", "arrange">>

days_until_saturday_rolling(today) ==
    LET days == (5 - weekday(today)) % 7
    IN  IF days = 0 THEN 7 ELSE days

days_until_saturday(today) ==
    LET days == (5 - weekday(today)) % 7
    IN  IF days = 0 /\ weekday(today) # 5 THEN 7 ELSE days

days_until_monday(today) ==
    LET days == (7 - weekday(today)) % 7
    IN  IF days = 0 THEN 7 ELSE days


\* A weekday rule that takes today for the day named.
days_ahead_same_day(day_num, today) == (day_num - weekday(today)) % 7

days_ahead(day_num, today) ==
    LET days == (day_num - weekday(today)) % 7
    IN  IF days = 0 THEN 7 ELSE days


\* A parser that looks for an embedded date before the weekday names.
parse_relative_date_literal_first(text, today) ==
    LET text_lower == Lower(text)
        named == {i \in 1..Len(day_names) : Contains(text_lower, day_names[i])}
        match == re_search_date(text)
    IN  IF Contains(text_lower, "today") THEN strftime(today)
        ELSE IF Contains(text_lower, "tomorrow")
            THEN strftime(timedelta(today, 1))
        ELSE IF Contains(text_lower, "weekend")
            THEN strftime(timedelta(today, days_until_saturday(today)))
        ELSE IF Contains(text_lower, "next week")
            THEN strftime(timedelta(today, days_until_monday(today)))
        ELSE IF ~IsNone(match) THEN match
        ELSE IF named # {}
            THEN LET first == CHOOSE i \in named : \A j \in named : i <= j
                 IN  strftime(timedelta(today, days_ahead(first - 1, today)))
        ELSE IF \E i \in 1..Len(planning_keywords) :
                    Contains(text_lower, planning_keywords[i])
            THEN strftime(timedelta(today, 1))
        ELSE None

\* today stands for datetime.now()
parse_relative_date(text, today) ==
    LET text_lower == Lower(text)
        named == {i \in 1..Len(day_names) : Contains(text_lower, day_names[i])}
        match == re_search_date(text)
    IN  IF Contains(text_lower, "today") THEN strftime(today)
        ELSE IF Contains(text_lower, "tomorrow")
            THEN strftime(timedelta(today, 1))
        ELSE IF Contains(text_lower, "this weekend")
                \/ Contains(text_lower, "weekend")
            THEN strftime(timedelta(today, days_until_saturday(today)))
        ELSE IF Contains(text_lower, "next week")
            THEN strftime(timedelta(today, days_until_monday(today)))
        ELSE IF named # {}
            THEN LET first == CHOOSE i \in named : \A j \in named : i <= j
                 IN  strftime(timedelta(today, days_ahead(first - 1, today)))
        ELSE IF ~IsNone(match) THEN match
        ELSE IF \E i \in 1..Len(planning_keywords) :
                    Contains(text_lower, planning_keywords[i])
            THEN strftime(timedelta(today, 1))
        ELSE None

(***************************************************************************)
(* parse_relative_date, called on a text on a given day.                   *)
(***************************************************************************)
DateTexts ==
    {"let's meet this weekend", "Weekend trip to the lake",
     "a long WEEKEND away", "weekend plans for today",
     "the weekend after tomorrow", "any plan tomorrow", "lunch today",
     "start next week", "on Friday", "Saturday hike", "picnic on 2026-03-01",
     "plan a party", "hello there", "Sunday or Monday brunch",
     "see you WEDNESDAY", "weekend or next week", "next week on Friday",
     "Friday 2026-03-01", "plan for 2026-11-31", "due 2026-13-45 or 2026-03-01"}

FirstDays == {Date(2026, 12, 19), Date(2028, 2, 19)}

Todays == {timedelta(first, k) : first \in FirstDays, k \in 0..DaySpan}

InitDates ==
    /\ given \in [function : {"parse_relative_date"},
                  text : DateTexts,
                  today : Todays]
    /\ answer = NoAnswer
    /\ OthersIdle

CallParseRelativeDate ==
    /\ given.function = "parse_relative_date"
    /\ ~answer.returned
    /\ answer' = Answer(Parsed(FALSE,
                               parse_relative_date(given.text, given.today),
                               NoException))
    /\ UNCHANGED <<given, watch, screen, wvars, rvars, pvars>>

NextDates == CallParseRelativeDate

SpecDates == InitDates /\ [][NextDates]_vars

(***************************************************************************)
(* Dates: what is claimed of a text that names the weekend.                *)
(***************************************************************************)
\* The date a "YYYY-MM-DD" string names.
DateOf(s) ==
    Date(DigitsVal(SubSeq(s, 1, 4), 4), DigitsVal(SubSeq(s, 6, 7), 2),
         DigitsVal(SubSeq(s, 9, 10), 2))

NamesWeekend ==
    /\ given.function = "parse_relative_date"
    /\ answer.returned
    /\ \E i \in 0..(Len(given.text) - 7) :
           Lower(SubSeq(given.text, i + 1, i + 7)) = "weekend"
    /\ \A i \in 0..(Len(given.text) - 5) :
           Lower(SubSeq(given.text, i + 1, i + 5)) # "today"
    /\ \A i \in 0..(Len(given.text) - 8) :
           Lower(SubSeq(given.text, i + 1, i + 8)) # "tomorrow"

\* C16, as claimed: for a text containing "weekend" and neither "today" nor
\* "tomorrow", parse_relative_date returns a Saturday strictly after today,
\* whatever weekday today is; on a Saturday that is the Saturday 7 days ahead.
C16_WeekendIsAFutureSaturday ==
    NamesWeekend =>
        /\ ~IsNone(answer.value)
        /\ weekday(DateOf(answer.value)) = 5
        /\ toordinal(DateOf(answer.value)) > toordinal(given.today)
        /\ weekday(given.today) = 5 =>
               toordinal(DateOf(answer.value)) = toordinal(given.today) + 7

\* C16, as the code has it: for a text containing "weekend" and neither
\* "today" nor "tomorrow", parse_relative_date returns the first Saturday that
\* is not before today: strictly after today on every weekday but Saturday,
\* and today itself when today is Saturday.
C16_WeekendIsTheComingSaturday ==
    NamesWeekend =>
        /\ ~IsNone(answer.value)
        /\ IsDatePattern(answer.value)
        /\ weekday(DateOf(answer.value)) = 5
        /\ toordinal(DateOf(answer.value)) >= toordinal(given.today)
        /\ toordinal(DateOf(answer.value)) < toordinal(given.today) + 7
        /\ weekday(given.today) = 5 => DateOf(answer.value) = given.today
        /\ weekday(given.today) # 5 =>
               toordinal(DateOf(answer.value)) > toordinal(given.today)

\* Asked about the weekend on Saturday 2026-12-26, the answer is that day.
C16_Witness ==
    /\ NamesWeekend
    /\ given.today = Date(2026, 12, 26)
    /\ weekday(given.today) = 5
    /\ answer.value = "2026-12-26"

(***************************************************************************)
(* classify_activity_weather_sensitivity, called on a text.                *)
(***************************************************************************)
Openers == {"Plan a", "Schedule a", "Book an outside", "An OUTDOOR", "Join the", "Skip the"}

Occasions ==
    {"beach day with friends", "team meeting", "lunch at the park",
     "brunch", "movie and dinner", "walk", "workout", "quiet day",
     "concert hall visit", "meeting after the picnic lunch"}

ActivityTexts == {opener \o " " \o occasion : opener \in Openers, occasion \in Occasions}

classify(text) ==
    IF text \in DOMAIN SensitivityTable THEN SensitivityTable[text]
    ELSE classify_activity_weather_sensitivity(text)

InitClassify ==
    /\ given \in [function : {"classify_activity_weather_sensitivity"},
                  text : ActivityTexts]
    /\ answer = NoAnswer
    /\ OthersIdle

CallClassify ==
    /\ given.function = "classify_activity_weather_sensitivity"
    /\ ~answer.returned
    /\ answer' = Answer(Parsed(FALSE, classify(given.text), NoException))
    /\ UNCHANGED <<given, watch, screen, wvars, rvars, pvars>>

NextClassify == CallClassify

SpecClassify == InitClassify /\ [][NextClassify]_vars

(***************************************************************************)
(* The activity classifier: what is claimed of it.                         *)
(***************************************************************************)
Elements(list) == {list[i] : i \in 1..Len(list)}

\* The keywords of a set that occur in the text, letter case aside.
Matching(keywords, text) ==
    {k \in Elements(keywords) :
        \E i \in 1..Len(text) :
            /\ i + Len(k) - 1 <= Len(text)
            /\ Lower(SubSeq(text, i, i + Len(k) - 1)) = k}

Classified ==
    /\ given.function = "classify_activity_weather_sensitivity"
    /\ answer.returned

\* C17: classify_activity_weather_sensitivity follows the four-branch rule:
\* (1) some outdoor keyword matches and the outdoor count is at least the
\* indoor count: (true, the matched outdoor keywords), ties included; (2) else
\* the text holds "outdoor" or "outside": (true, ["outdoor activity"]); (3)
\* else no keyword of either set matches: (true, []); (4) else (some outdoor
\* keyword matched, the matched outdoor keywords).  Nothing else changes;
\* "Plan a beach day with friends" is sensitive with "beach" and "Schedule a
\* team meeting" is not sensitive.
C17_ClassifierFourBranches ==
    Classified =>
        LET outdoor == Matching(OUTDOOR_ACTIVITIES, given.text)
            indoor == Matching(INDOOR_ACTIVITIES, given.text)
            explicit == Matching(<<"outdoor", "outside">>, given.text)
            got == answer.value
        IN  /\ ~answer.raised
            /\ IF outdoor # {} /\ Cardinality(outdoor) >= Cardinality(indoor)
               THEN /\ got.is_sensitive
                    /\ Elements(got.activities) = outdoor
                    /\ Len(got.activities) = Cardinality(outdoor)
               ELSE IF explicit # {}
               THEN got = Sensitivity(TRUE, <<"outdoor activity">>)
               ELSE IF outdoor = {} /\ indoor = {}
               THEN got = Sensitivity(TRUE, <<>>)
               ELSE /\ got.is_sensitive = (outdoor # {})
                    /\ Elements(got.activities) = outdoor
                    /\ Len(got.activities) = Cardinality(outdoor)
            /\ given.text = "Plan a beach day with friends" =>
                   got.is_sensitive /\ "beach" \in Elements(got.activities)
            /\ given.text = "Schedule a team meeting" => ~got.is_sensitive
            /\ OthersIdle

\* A tie in a text that also says "outside": one outdoor keyword, one indoor
\* keyword, and the outdoor keyword is the answer.
C17_Witness ==
    /\ Classified
    /\ given.text = "Book an outside lunch at the park"
    /\ Cardinality(Matching(INDOOR_ACTIVITIES, given.text)) = 1
    /\ answer.value = Sensitivity(TRUE, <<"park">>)

(***************************************************************************)
(* utils.py: the location resolver.  Python iterates COMMON_CITIES in the  *)
(* order of its hash table; the cities are listed in the order of the      *)
(* source, which matters only for a text that names several of them.       *)
(***************************************************************************)
\* bool(v) of an Optional[str]
Truthy(v) == IF IsNone(v) THEN FALSE ELSE v # ""

COMMON_CITIES ==
    <<"new york", "los angeles", "chicago", "houston", "phoenix",
      "philadelphia", "san antonio", "san diego", "dallas", "san jose",
      "austin", "seattle", "denver", "boston", "miami", "atlanta", "london",
      "paris", "tokyo", "sydney", "toronto", "vancouver", "berlin", "madrid",
      "rome", "amsterdam", "vadodara", "mumbai", "delhi", "bangalore",
      "hyderabad", "pune", "kolkata">>

location_prepositions == <<"in", "at", "near", "around", "to">>

non_locations == {"the", "a", "an", "my", "our", "this", "that"}

\* text.split(sep) for a separator of one character
RECURSIVE Split(_, _)
Split(text, sep) ==
    LET at == {i \in 1..Len(text) : Ch(text, i) = sep}
    IN  IF at = {} THEN <<text>>
        ELSE LET i == CHOOSE j \in at : \A k \in at : j <= k
             IN  <<SubSeq(text, 1, i - 1)>>
                 \o Split(SubSeq(text, i + 1, Len(text)), sep)

IsUpperLetter(c) == \E i \in 1..26 : Ch(UpperLetters, i) = c
IsWordChar(c) == IsLetter(c) \/ IsDigit(c) \/ c = "_"

\* How many characters from position i on are letters, or are whitespace.
RECURSIVE LetterRun(_, _)
LetterRun(s, i) ==
    IF i <= Len(s) /\ IsLetter(Ch(s, i)) THEN 1 + LetterRun(s, i + 1) ELSE 0

RECURSIVE SpaceRun(_, _)
SpaceRun(s, i) ==
    IF i <= Len(s) /\ Ch(s, i) \in Whitespace THEN 1 + SpaceRun(s, i + 1) ELSE 0

\* [A-Z][a-zA-Z]+ at position k: the position of its last letter, or 0
CapitalWordEnd(s, k) ==
    IF k <= Len(s) /\ IsUpperLetter(Ch(s, k)) /\ LetterRun(s, k) >= 2
    THEN k + LetterRun(s, k) - 1 ELSE 0

\* \b prep \s+ ([A-Z][a-zA-Z]+(?:\s+[A-Z][a-zA-Z]+)?) at position i: group 1,
\* or None
PrepositionMatchAt(s, prep, i) ==
    LET after == i + Len(prep)
        k == after + SpaceRun(s, after)
        e == CapitalWordEnd(s, k)
        k2 == e + 1 + SpaceRun(s, e + 1)
        e2 == IF k2 > e + 1 THEN CapitalWordEnd(s, k2) ELSE 0
    IN  IF /\ i + Len(prep) - 1 <= Len(s)
           /\ SubSeq(s, i, i + Len(prep) - 1) = prep
           /\ (i = 1 \/ ~IsWordChar(Ch(s, i - 1)))
           /\ k > after
           /\ e > 0
        THEN SubSeq(s, k, IF e2 > 0 THEN e2 ELSE e)
        ELSE None

\* re.search(pattern, text).group(1) for one preposition, or None
PrepositionSearch(s, prep) ==
    LET at == {i \in 1..Len(s) : ~IsNone(PrepositionMatchAt(s, prep, i))}
    IN  IF at = {} THEN None
        ELSE PrepositionMatchAt(s, prep, CHOOSE j \in at : \A k \in at : j <= k)

StripAll(list) == [i \in 1..Len(list) |-> Strip(list[i])]

extract_location_from_text(text) ==
    LET text_lower == Strip(Lower(text))
        cities == {i \in 1..Len(COMMON_CITIES) :
                      Contains(text_lower, COMMON_CITIES[i])}
        parts == StripAll(Split(text, ","))
        found == {i \in 1..Len(location_prepositions) :
                     LET m == PrepositionSearch(text, location_prepositions[i])
                     IN  IF IsNone(m) THEN FALSE
                         ELSE Lower(m) \notin non_locations}
    IN  IF cities # {}
        THEN TitleFrom(COMMON_CITIES[CHOOSE i \in cities :
                                         \A j \in cities : i <= j], 1)
        ELSE IF Contains(text, ",") /\ Len(parts) >= 2
        THEN TitleFrom(Join(", ", parts), 1)
        ELSE IF found # {}
        THEN PrepositionSearch(text, location_prepositions[
                 CHOOSE i \in found : \A j \in found : i <= j])
        ELSE None

\* What normalize_location returns, and which of its two helpers it called.
Located(value, extracted, probed) ==
    [value |-> value, extracted |-> extracted, probed |-> probed]

normalize_location_city_only(city, state, country, text_input, auto_detect, detected) ==
    IF Truthy(city) THEN Located(Strip(city), FALSE, FALSE)
    ELSE IF Truthy(state) /\ Truthy(country)
    THEN Located(Strip(state) \o ", " \o Strip(country), FALSE, FALSE)
    ELSE IF Truthy(country) THEN Located(Strip(country), FALSE, FALSE)
    ELSE LET location == IF Truthy(text_input)
                         THEN extract_location_from_text(text_input) ELSE None
         IN  IF Truthy(location) THEN Located(location, TRUE, FALSE)
             ELSE IF auto_detect /\ Truthy(detected)
             THEN Located(detected, Truthy(text_input), TRUE)
             ELSE Located(None, Truthy(text_input), auto_detect)

\* detected stands for what get_location_from_ip would return
normalize_location(city, state, country, text_input, auto_detect, detected) ==
    IF Truthy(city)
    THEN Located(Join(", ", <<Strip(city)>>
                            \o (IF Truthy(state) THEN <<Strip(state)>> ELSE <<>>)
                            \o (IF Truthy(country) THEN <<Strip(country)>> ELSE <<>>)),
                 FALSE, FALSE)
    ELSE IF Truthy(state) /\ Truthy(country)
    THEN Located(Strip(state) \o ", " \o Strip(country), FALSE, FALSE)
    ELSE IF Truthy(country) THEN Located(Strip(country), FALSE, FALSE)
    ELSE LET location == IF Truthy(text_input)
                         THEN extract_location_from_text(text_input) ELSE None
         IN  IF Truthy(location) THEN Located(location, TRUE, FALSE)
             ELSE IF auto_detect /\ Truthy(detected)
             THEN Located(detected, Truthy(text_input), TRUE)
             ELSE Located(None, Truthy(text_input), auto_detect)

(***************************************************************************)
(* normalize_location, called on the fields of the form.                   *)
(***************************************************************************)
\* An Optional[str] argument: <<>> for None, <<s>> for the string s.
Optional(strings) == {<<>>} \cup {<<s>> : s \in strings}
Value(optional) == IF optional = <<>> THEN None ELSE optional[1]

Cities == Optional({"", "Paris", " New Delhi "})
States == Optional({"Gujarat"})
Countries == Optional({"India "})
FreeTexts ==
    Optional({"Weekend trip to Tokyo", "A day out, with friends",
              "Picnic near Central Park", "a walk in the woods", "stay home"})
Detections == Optional({"Vadodara, Gujarat, India"})

InitLocation ==
    /\ given \in [function : {"normalize_location"},
                  city : Cities,
                  state : States,
                  country : Countries,
                  text_input : FreeTexts,
                  auto_detect : BOOLEAN,
                  detected : Detections]
    /\ answer = NoAnswer
    /\ OthersIdle

CallNormalizeLocation ==
    /\ given.function = "normalize_location"
    /\ ~answer.returned
    /\ answer' = Answer(Parsed(FALSE,
                               normalize_location(
                                   Value(given.city), Value(given.state),
                                   Value(given.country),
                                   Value(given.text_input), given.auto_detect,
                                   Value(given.detected)),
                               NoException))
    /\ UNCHANGED <<given, watch, screen, wvars, rvars, pvars>>

NextLocation == CallNormalizeLocation

SpecLocation == InitLocation /\ [][NextLocation]_vars

(***************************************************************************)
(* The location resolver: what is claimed of explicit fields.              *)
(***************************************************************************)
Normalized ==
    /\ given.function = "normalize_location"
    /\ answer.returned

Supplied(field) == field # <<>> /\ field # <<"">>

\* The fields that were supplied, stripped and joined by ", ".
FromFields(fields) ==
    LET supplied == SelectSeq(fields, Supplied)
    IN  Join(", ", [i \in 1..Len(supplied) |-> Strip(supplied[i][1])])

\* C18, as claimed: when any of city, state and country is supplied,
\* normalize_location returns a value built only from those fields, and
\* neither the extraction from the free text nor the detection by IP runs,
\* whatever the free text and auto_detect are; city "Paris" with a free text
\* that mentions Tokyo gives "Paris".
C18_AnyExplicitFieldWins ==
    (/\ Normalized
     /\ Supplied(given.city) \/ Supplied(given.state) \/ Supplied(given.country))
    => /\ ~answer.value.extracted
       /\ ~answer.value.probed
       /\ ~IsNone(answer.value.value)
       /\ \E used \in SUBSET {1, 2, 3} :
              LET fields == <<given.city, given.state, given.country>>
                  chosen == [i \in 1..3 |-> IF i \in used THEN fields[i] ELSE <<>>]
              IN  /\ \E i \in used : Supplied(fields[i])
                  /\ answer.value.value = FromFields(chosen)

\* C18, as the code has it: when city or country is supplied, the value is
\* the supplied fields among city, state, country, stripped and joined in
\* that order, and neither the extraction from the free text nor the
\* detection by IP runs; city "Paris" with a free text that mentions Tokyo
\* gives "Paris".  A state supplied alone is not used.
C18_ExplicitCityOrCountryWins ==
    (/\ Normalized
     /\ Supplied(given.city) \/ Supplied(given.country))
    => /\ ~answer.value.extracted
       /\ ~answer.value.probed
       /\ ~IsNone(answer.value.value)
       /\ answer.value.value =
              FromFields(<<given.city, given.state, given.country>>)
       /\ (given.city = <<"Paris">> /\ given.state = <<>> /\ given.country = <<>>)
              => answer.value.value = "Paris"

\* City Paris, a free text that names Tokyo, detection by IP enabled.
C18_Witness ==
    /\ Normalized
    /\ given.city = <<"Paris">>
    /\ given.text_input = <<"Weekend trip to Tokyo">>
    /\ given.auto_detect
    /\ given.state = <<>>
    /\ given.country = <<>>
    /\ answer.value = Located("Paris", FALSE, FALSE)

(***************************************************************************)
(* app.py: the form.  A click on Generate validates the fields and either  *)
(* warns and stops the script or runs run_chronos on the background loop   *)
(* and waits for it; session_state holds the response and the saved plans. *)
(***************************************************************************)
MaxClicks == 2

Dash == "-"

\* _build_location_string
build_location_string(city, state, country) ==
    LET Filled(p) == p # "" /\ Strip(p) # ""
    IN  Join(", ", StripAll(SelectSeq(<<city, state, country>>, Filled)))

Form(user_input, city, state, country, start_date, end_date) ==
    [user_input |-> user_input, location_city |-> city,
     location_state |-> state, location_country |-> country,
     start_date |-> start_date, end_date |-> end_date]

Screen(shown, message, response, form, clicks, saved_plans) ==
    [shown |-> shown, message |-> message, response |-> response,
     form |-> form, clicks |-> clicks, saved_plans |-> saved_plans]

\* st.warning(message); st.stop()
Warned(s, form, message) ==
    Screen("warning", message, None, form, s.clicks + 1, s.saved_plans)

\* _save_plan
save_plan(saved_plans, response) ==
    <<[request |-> response.original_request,
       location |-> IF Truthy(response.extracted_location)
                    THEN response.extracted_location
                    ELSE IF Truthy(response.location_used)
                    THEN response.location_used ELSE Dash,
       dates |-> (IF Truthy(response.start_date)
                  THEN response.start_date ELSE "?")
                 \o " - "
                 \o (IF Truthy(response.end_date)
                     THEN response.end_date ELSE "?"),
       response |-> response]>> \o saved_plans

\* The script after the step r of run_chronos: still waiting for the future,
\* or holding the response.
Shown(s, r) ==
    IF r.pc = "return"
    THEN [s EXCEPT
            !.shown = "result",
            !.response = [kind |-> r.result.kind, value |-> r.result.value],
            !.saved_plans = IF r.result.kind = "ChronosResponse"
                            THEN save_plan(@, r.result.value) ELSE @]
    ELSE [s EXCEPT !.shown = "spinner"]

Advance(s, r, reply) ==
    /\ Proceeded(r, reply)
    /\ screen' = Shown(s, r)
    /\ UNCHANGED <<watch, given, answer>>

validation_dates_unchecked(form) ==
    IF form.user_input = "" \/ Strip(form.user_input) = ""
    THEN "Please describe what you're planning."
    ELSE IF build_location_string(form.location_city, form.location_state,
                                  form.location_country) = ""
    THEN "Please enter at least a city or country, or use 'Detect my location'."
    ELSE "ok"

\* The validation block: the warning it ends with, or "ok".
validation(form) ==
    IF form.user_input = "" \/ Strip(form.user_input) = ""
    THEN "Please describe what you're planning."
    ELSE IF build_location_string(form.location_city, form.location_state,
                                  form.location_country) = ""
    THEN "Please enter at least a city or country, or use 'Detect my location'."
    ELSE IF toordinal(form.end_date) < toordinal(form.start_date)
    THEN "End date cannot be before start date."
    ELSE "ok"

GenerateClicked(form) ==
    /\ run.pc = "idle"
    /\ screen.shown # "spinner"
    /\ screen.clicks < MaxClicks
    /\ IF validation(form) # "ok"
       THEN /\ screen' = Warned(screen, form, validation(form))
            /\ UNCHANGED <<wvars, rvars, pvars, watch, given, answer>>
       ELSE Advance(Screen("spinner", "", None, form, screen.clicks + 1,
                           screen.saved_plans),
                    run_chronos_begin(
                        cache, now, Strip(form.user_input),
                        build_location_string(form.location_city,
                                              form.location_state,
                                              form.location_country),
                        strftime(form.start_date), strftime(form.end_date),
                        FALSE, pyhash),
                    NoReply)

AppWeatherAnswers(resp) ==
    /\ run.pc = "fetching"
    /\ screen.shown = "spinner"
    /\ Advance(screen, run_chronos_fetched(cache, now, run.frame, resp, pyhash),
               NoReply)

AppAgentAnswers(reply) ==
    /\ run.pc = "planning"
    /\ screen.shown = "spinner"
    /\ Advance(screen, run_chronos_resume(cache, run.frame, reply), reply)

UserInputs ==
    {"", "  ", "Plan a beach day with friends", " Schedule a team meeting "}
CityInputs == {"", " ", " paris "}
CountryInputs == {"", " "}
DateInputs == {Date(2026, 2, 8), Date(2026, 2, 9)}
AppLiveResponses == {Failed("timeout")} \cup LiveComplete
AppAgentReplies ==
    {reply \in AgentReplies : reply.tag \in {"timeout", "two_plans", "infeasible"}}

Forms ==
    {Form(user_input, city, "", country, start_date, end_date) :
        user_input \in UserInputs, city \in CityInputs,
        country \in CountryInputs,
        start_date \in DateInputs, end_date \in DateInputs}

InitApp ==
    /\ InitWeather
    /\ pool = {}
    /\ RiskIdle
    /\ PipelineIdle
    /\ watch = NoWatch
    /\ given = NoArguments
    /\ answer = NoAnswer
    /\ screen = Screen("form", "", None, None, 0, <<>>)

NextApp ==
    \/ \E form \in Forms : GenerateClicked(form)
    \/ \E resp \in AppLiveResponses : AppWeatherAnswers(resp)
    \/ \E reply \in AppAgentReplies : AppAgentAnswers(reply)

SpecApp == InitApp /\ [][NextApp]_vars

(***************************************************************************)
(* The form: what is claimed of invalid input.                             *)
(***************************************************************************)
\* The fields of a click are invalid: the request is empty or blank, no
\* location field holds a character that is not blank, or the end date is
\* before the start date.
InvalidInput(form) ==
    \/ \A i \in 1..Len(form.user_input) : Ch(form.user_input, i) \in Whitespace
    \/ \A field \in {form.location_city, form.location_state,
                     form.location_country} :
           \A i \in 1..Len(field) : Ch(field, i) \in Whitespace
    \/ DayNumber(strftime(form.end_date)) < DayNumber(strftime(form.start_date))

Clicked == screen'.clicks = screen.clicks + 1

\* C19: a click with invalid input (end date before start date, request
\* empty or blank, location empty) is rejected before any pipeline work: the
\* step that takes the click enters no run_chronos (no classification, no
\* weather lookup, no generative call), leaves the cache as it was, and
\* leaves no response, so no AgentError, in the session.
C19_InvalidInputRejected ==
    [][(Clicked /\ InvalidInput(screen'.form)) =>
           /\ screen'.shown = "warning"
           /\ screen'.response = None
           /\ run' = NoRun
           /\ UNCHANGED <<cache, origin, task, ret, out>>
           /\ screen'.saved_plans = screen.saved_plans]_vars

\* After a request that was planned and saved, a request for a range that
\* ends before it starts was turned away.
C19_Witness ==
    /\ screen.shown = "warning"
    /\ screen.clicks = 2
    /\ Len(screen.saved_plans) = 1
    /\ screen.form.user_input = "Plan a beach day with friends"
    /\ screen.form.location_city = " paris "
    /\ screen.form.start_date = Date(2026, 2, 9)
    /\ screen.form.end_date = Date(2026, 2, 8)
    /\ screen.message = "End date cannot be before start date."
    /\ screen.response = None
    /\ run = NoRun

(***************************************************************************)
(* The planning pipeline: what is claimed of an infeasible request.        *)
(***************************************************************************)
ReturnedInfeasible ==
    /\ out.returned
    /\ out.kind = "ChronosResponse"
    /\ ~out.value.task_feasibility.feasible

\* The decisions of a trace that record a get_weather call.
Lookups(trace) ==
    {i \in 1..Len(trace) : trace[i].decision = "Fetched weather data"}

\* C20, as claimed: when the verdict of an invocation of run_chronos is
\* infeasible, the invocation called get_weather at no point, so wrote
\* nothing to the cache, and the result it returns carries no weather
\* observation.
C20_InfeasibleHasNoWeather ==
    ReturnedInfeasible =>
        /\ out.value.weather_data = None
        /\ out.frame.weather_data = None
        /\ Lookups(out.value.decision_trace) = {}

\* A beach day judged infeasible: the observation was fetched before the
\* collaborator was asked, is in the cache and is in the result.
C20_Witness ==
    /\ ReturnedInfeasible
    /\ out.reply.tag = "infeasible"
    /\ out.frame.user_request = "Plan a beach day with friends"
    /\ out.value.weather_data # None
    /\ Lookups(out.value.decision_trace) # {}
    /\ CacheKey(out.frame.location, out.frame.start_date) \in DOMAIN cache

(***************************************************************************)
(* The planning pipeline under scheduling.  The request to the live source *)
(* is made with timeout=10.0, so the await of get_weather ends: with an    *)
(* answer, or with the timeout that httpx raises.  The await of            *)
(* chronos_agent.run is made with no timeout and _run_async waits on       *)
(* future.result() with none, so nothing ends it but the collaborator.     *)
(***************************************************************************)
\* httpx raises its timeout on a request that is still unanswered.
FetchTimesOut == WeatherAnswers(Failed("timeout"))

SpecChronosLive ==
    InitChronos /\ [][NextChronos]_vars /\ WF_vars(FetchTimesOut)

(***************************************************************************)
(* The planning pipeline: what is claimed of its termination.              *)
(***************************************************************************)
\* C21, as claimed: an invocation of run_chronos that has started returns,
\* also when the live source or the collaborator never answers, because
\* each of the two awaits is bounded by a timeout.
C21_RunChronosEventuallyReturns ==
    (run.pc # "idle") ~> out.returned

\* run_chronos waits for the collaborator, the weather already fetched.
C21_Witness ==
    /\ run.pc = "planning"
    /\ run.frame.weather_data # None
    /\ ~out.returned

(***************************************************************************)
(* The weather source under concurrent callers: the coroutines of several  *)
(* requests run on one event loop and share the cache; each get_weather    *)
(* gives way at its one await, where its caller may also cancel it.        *)
(* CancelledError is no Exception, so the handler of                       *)
(* fetch_weather_from_api lets it through and get_weather ends there.      *)
(***************************************************************************)
ConcurrentResponses == {Failed("timeout")} \cup LiveComplete
ConcurrentDates == {"2026-02-08"}

Cancelled(c) == Outcome("return", TRUE, None, c, FALSE, FALSE, FALSE)

\* The call of task id is cancelled at its await.
Abandon(id) ==
    /\ id \in pool
    /\ task[id].pc = "fetching"
    /\ ret' = Returned(id, task[id].location, task[id].date, FALSE,
                       Cancelled(cache), "cancelled", "kept",
                       task[id].evicted)
    /\ task' = [task EXCEPT ![id] = Idle]
    /\ UNCHANGED <<cache, origin, now, pyhash, pool, rvars, pvars, avars>>

InitConcurrent ==
    /\ InitWeather
    /\ pool = TaskIds
    /\ RiskIdle
    /\ PipelineIdle
    /\ AuxIdle

NextConcurrent ==
    \/ \E id \in TaskIds, location \in Locations, date \in ConcurrentDates,
          use_simulation \in BOOLEAN :
            CallGetWeather(id, location, date, use_simulation)
    \/ \E id \in TaskIds, resp \in ConcurrentResponses :
            LiveSourceAnswers(id, resp)
    \/ \E id \in TaskIds : Abandon(id)
    \/ Tick

SpecConcurrent == InitConcurrent /\ [][NextConcurrent]_vars

(***************************************************************************)
(* The cache under concurrent callers: what is claimed of its entries.     *)
(***************************************************************************)
EntriesComplete ==
    \A k \in DOMAIN cache :
        /\ cache[k].weather # None
        /\ WeatherConditionValid(cache[k].weather)
        /\ cache[k].cache_time \in 0..now

\* The call that ended last ended without a value: cancelled, or raised.
EndedWithoutValue == ret.returned /\ ret.raised

\* In this step the entry of key k is written by a call that returns the
\* observation it stored, stamped with the time of the step.
Written(k) ==
    /\ ret'.returned
    /\ ~ret'.raised
    /\ CacheKey(ret'.location, ret'.date) = k
    /\ WeatherConditionValid(ret'.weather)
    /\ cache'[k] = [weather |-> ret'.weather, cache_time |-> now]

\* In this step a call for key k begins.
BeganFor(k) ==
    \/ \E id \in TaskIds :
           /\ task[id].pc = "idle"
           /\ task'[id].pc = "fetching"
           /\ CacheKey(task'[id].location, task'[id].date) = k
    \/ /\ ret'.returned
       /\ ret'.live = "none"
       /\ CacheKey(ret'.location, ret'.date) = k

CacheStep ==
    /\ \A k \in DOMAIN cache' :
           (k \in DOMAIN cache /\ cache'[k] = cache[k]) \/ Written(k)
    /\ \A k \in DOMAIN cache \ DOMAIN cache' :
           /\ ~_is_cache_valid(cache[k].cache_time, now)
           /\ BeganFor(k)

\* C22, as claimed: under every interleaving of get_weather calls, cancelled
\* ones included, each entry of the cache is a complete observation with the
\* time it was stored, and a call that was cancelled or failed has left the
\* cache as it found it.
C22_AbandonedCallLeavesCacheUnchanged ==
    /\ EntriesComplete
    /\ EndedWithoutValue => ~ret.evicted

\* C22, as the code has it: under every interleaving of get_weather calls,
\* cancelled ones included, each entry of the cache is a complete observation
\* with the time it was stored; an entry is written only by a call that
\* returns that observation, so a call that is cancelled or fails writes
\* none; the one other change a call makes, when it begins, is to remove the
\* expired entry of its own key, and a cancelled call leaves that removed.
C22_OnlyCompleteObservationsStored ==
    []EntriesComplete /\ [][CacheStep]_vars

\* A call found the entry of its key expired, removed it, and was cancelled
\* while the live source had not answered.
C22_Witness ==
    /\ EndedWithoutValue
    /\ ret.live = "cancelled"
    /\ ret.evicted
    /\ CacheKey(ret.location, ret.date) \notin DOMAIN cache

(***************************************************************************)
(* The cache under concurrent callers: what is claimed of overwriting.     *)
(***************************************************************************)
Fresh(k) == _is_cache_valid(cache[k].cache_time, now)

\* C23, as claimed: under every interleaving of get_weather calls for one
\* key, an entry, once written, is replaced only after it has expired: no
\* step replaces an entry that is younger than the TTL or changes a field of
\* a stored observation.
C23_FreshEntryNeverOverwritten ==
    [][\A k \in DOMAIN cache :
           Fresh(k) => (k \in DOMAIN cache' /\ cache'[k] = cache[k])]_vars

\* Two calls for one key both missed the cache: one has stored its
\* observation and returned, and the other's live fetch is still pending
\* while that entry is fresh.
C23_Witness ==
    \E id \in TaskIds :
        /\ task[id].pc = "fetching"
        /\ ret.returned
        /\ ret.task # id
        /\ ~ret.raised
        /\ LET k == CacheKey(task[id].location, task[id].date)
           IN  /\ k = CacheKey(ret.location, ret.date)
               /\ k \in DOMAIN cache
               /\ Fresh(k)
               /\ cache[k].weather = ret.weather

(***************************************************************************)
(* C24.  What run_chronos sets on the response it returns.                 *)
(***************************************************************************)
ReturnedResponse == out.returned /\ out.kind = "ChronosResponse"

\* t is s without the whitespace at its two ends.
IsTrimOf(t, s) ==
    \E i \in 1..(Len(s) + 1), j \in 0..Len(s) :
        /\ t = SubSeq(s, i, j)
        /\ \A k \in (1..(i - 1)) \cup ((j + 1)..Len(s)) : Ch(s, k) \in Whitespace
        /\ i <= j => (Ch(s, i) \notin Whitespace /\ Ch(s, j) \notin Whitespace)

\* What the classifier says of the request, as run_chronos reports it.
RelevanceOf(user_request) ==
    LET activities == SensitivityTable[user_request].activities
    IN  [is_relevant |-> SensitivityTable[user_request].is_sensitive,
         outdoor_activities |-> activities,
         confidence |-> IF activities = <<>> THEN 70 ELSE 90]

\* C24: on the success path, whatever the collaborator echoed, the response
\* has location_used and extracted_location equal to the trimmed location
\* argument, location_confidence 1.0, the start and end dates of the call,
\* and the weather relevance and weather data the pipeline computed before
\* the collaborator was called.
C24_ResponseCarriesPipelineValues ==
    ReturnedResponse =>
        LET v == out.value
            relevance == RelevanceOf(out.frame.user_request)
        IN  /\ IsTrimOf(v.location_used, out.frame.location_given)
            /\ v.extracted_location = v.location_used
            /\ v.location_confidence = FullConfidence
            /\ v.start_date = out.frame.start_date
            /\ v.end_date = out.frame.end_date
            /\ v.start_date \in {d[1] : d \in DateRanges}
            /\ v.end_date \in {d[2] : d \in DateRanges}
            /\ v.weather_relevance = out.frame.weather_relevance
            /\ v.weather_relevance.is_relevant = relevance.is_relevant
            /\ v.weather_relevance.confidence = relevance.confidence
            /\ v.weather_relevance.outdoor_activities = relevance.outdoor_activities
            /\ v.weather_data = out.frame.weather_data
            /\ IF relevance.is_relevant
               THEN v.weather_data =
                        cache[CacheKey(v.location_used, v.start_date)].weather
               ELSE v.weather_data = None

C24_Witness ==
    /\ ReturnedResponse
    /\ out.reply.tag = "echo"
    /\ out.frame.location_given = " paris "
    /\ out.value.location_used = "paris"
    /\ out.value.weather_relevance.is_relevant
    /\ out.value.weather_data # Echoed.weather_data
    /\ out.value.end_date = "2026-02-09"

(***************************************************************************)
(* C25.  The decision trace of a returned response.                        *)
(***************************************************************************)
\* The records the collaborator reported, as they stand in its reply.
Reported == Get(out.reply.output.payload.data, "decision_trace", <<>>)

SameRecord(point, reported) ==
    /\ point.decision = reported.decision
    /\ point.reasoning = reported.reasoning
    /\ point.data_used = Get(reported, "data_used", None)

\* C25: the decision trace of a returned response is the pipeline's weather
\* decision ("Fetched weather data" or "Skipped weather lookup") followed by
\* the records the collaborator reported, all of them, once each and in the
\* order of the reply.
C25_TraceIsPipelineThenCollaborator ==
    ReturnedResponse =>
        LET trace == out.value.decision_trace
        IN  /\ Len(trace) = 1 + Len(Reported)
            /\ trace[1].decision \in
                   {"Fetched weather data", "Skipped weather lookup"}
            /\ trace[1].decision = "Fetched weather data"
                   <=> SensitivityTable[out.frame.user_request].is_sensitive
            /\ \A i \in 1..Len(Reported) : SameRecord(trace[i + 1], Reported[i])

C25_Witness ==
    /\ ReturnedResponse
    /\ Len(Reported) = 3
    /\ Reported[1] = Reported[3]
    /\ Reported[1] # Reported[2]
    /\ out.value.decision_trace[1].decision = "Skipped weather lookup"
    /\ out.value.decision_trace[3].decision = "Fetched weather data"

(***************************************************************************)
(* C26.  The weather lookup of an invocation.                              *)
(***************************************************************************)
Sensitive(frame) == SensitivityTable[frame.user_request].is_sensitive

\* The locals of the invocation a step belongs to.
FrameOfStep ==
    IF run.pc # "idle" THEN run.frame
    ELSE IF run'.pc # "idle" THEN run'.frame ELSE out'.frame

ChangedKeys ==
    {k \in DOMAIN cache \cup DOMAIN cache' :
        k \notin DOMAIN cache \/ k \notin DOMAIN cache' \/ cache[k] # cache'[k]}

\* At the await of the collaborator the lookup is over: one record, the
\* observation of the start date when the request is weather-sensitive,
\* nothing otherwise.
LookupDone ==
    run.pc = "planning" =>
        LET frame == run.frame
            key == CacheKey(frame.location, frame.start_date)
            record == frame.decision_trace[1]
        IN  /\ Len(frame.decision_trace) = 1
            /\ IF Sensitive(frame)
               THEN /\ frame.weather_data # None
                    /\ frame.weather_data.forecast_date = frame.start_date
                    /\ key \in DOMAIN cache
                    /\ cache[key].weather = frame.weather_data
                    /\ record.decision = "Fetched weather data"
                    /\ record.data_used = format_weather_summary(frame.weather_data)
               ELSE /\ frame.weather_data = None
                    /\ record.decision = "Skipped weather lookup"
                    /\ record.data_used = None

\* The weather source is reached for weather-sensitive requests only, for
\* the key of the start date only, once, and not after the collaborator has
\* been called.
LookupStep ==
    /\ run'.pc = "fetching" => (run.pc = "idle" /\ Sensitive(run'.frame))
    /\ run.pc = "fetching" => run'.pc \in {"planning", "idle"}
    /\ run.pc = "planning" => (run'.pc = "idle" /\ cache' = cache)
    /\ cache' # cache =>
           /\ Sensitive(FrameOfStep)
           /\ ChangedKeys =
                  {CacheKey(FrameOfStep.location, FrameOfStep.start_date)}

Mentions(word) ==
    \E i \in 0..(Len(given.text) - Len(word)) :
        Lower(SubSeq(given.text, i + 1, i + Len(word))) = word

ParsedDate == given.function = "parse_relative_date" /\ answer.returned

\* No rule that comes before "next week" matches.
NoEarlierWord ==
    ~Mentions("today") /\ ~Mentions("tomorrow") /\ ~Mentions("weekend")

WeekdaysNamed == {w \in 0..6 : Mentions(day_names[w + 1])}

NamesWeekday ==
    ParsedDate /\ NoEarlierWord /\ ~Mentions("next week") /\ WeekdaysNamed # {}

NamesNextWeek == ParsedDate /\ NoEarlierWord /\ Mentions("next week")

DaysAhead == toordinal(DateOf(answer.value)) - toordinal(given.today)

\* C27: for a text whose first matching rule is a weekday name,
\* parse_relative_date returns the next day of that weekday strictly after
\* today, 1 to 7 days ahead, and 7 days ahead when today is that weekday; for
\* "next week" it returns the next Monday strictly after today, 7 days ahead
\* when today is Monday.
C27_WeekdayIsStrictlyAhead ==
    /\ NamesWeekday =>
           LET named == CHOOSE w \in WeekdaysNamed : \A v \in WeekdaysNamed : w <= v
           IN  /\ IsDatePattern(answer.value)
               /\ weekday(DateOf(answer.value)) = named
               /\ DaysAhead \in 1..7
               /\ weekday(given.today) = named => DaysAhead = 7
    /\ NamesNextWeek =>
           /\ IsDatePattern(answer.value)
           /\ weekday(DateOf(answer.value)) = 0
           /\ DaysAhead \in 1..7
           /\ weekday(given.today) = 0 => DaysAhead = 7

\* Asked for Friday on Friday 2026-12-25, the answer is 2027-01-01.
C27_Witness ==
    /\ NamesWeekday
    /\ given.text = "on Friday"
    /\ given.today = Date(2026, 12, 25)
    /\ weekday(given.today) = 4
    /\ answer.value = "2027-01-01"

(***************************************************************************)
(* C28.  Dates: the order of the rules.                                    *)
(***************************************************************************)
\* The places of the text where ten characters have the shape YYYY-MM-DD.
LiteralsAt ==
    {i \in 1..(Len(given.text) - 9) :
        /\ \A k \in {0, 1, 2, 3, 5, 6, 8, 9} : IsDigit(Ch(given.text, i + k))
        /\ Ch(given.text, i + 4) = "-"
        /\ Ch(given.text, i + 7) = "-"}

NoDateWord ==
    NoEarlierWord /\ ~Mentions("next week") /\ WeekdaysNamed = {}

PlanningWord ==
    Mentions("plan") \/ Mentions("schedule") \/ Mentions("organize")
    \/ Mentions("arrange")

\* The answer is the day that many days after today, written YYYY-MM-DD.
AnswersDay(days) ==
    /\ ~IsNone(answer.value)
    /\ IsDatePattern(answer.value)
    /\ DateOf(answer.value).month \in 1..12
    /\ DateOf(answer.value).day \in
           1..DaysInMonth(DateOf(answer.value).year, DateOf(answer.value).month)
    /\ DaysAhead = days

CalledSimulating == ret'.returned /\ ret'.use_simulation

\* The entry of the key is younger than the TTL and was stored that way.
FreshFrom(key, how) ==
    /\ key \in DOMAIN cache
    /\ now - cache[key].cache_time < CACHE_TTL_MINUTES
    /\ origin[key] = how

\* C29: the simulate flag is no part of the cache key.  A call with
\* simulate=true within the TTL of a live store for the same lowercased
\* location and date returns the live observation, is_simulated false,
\* and synthesizes nothing; a call with simulate=false within the TTL of a
\* simulated store returns the simulated observation and attempts no live
\* fetch.
C29_CacheKeyIgnoresSimulateFlag ==
    [][\A id \in TaskIds, location \in Locations, date \in Dates :
        LET key == CacheKey(location, date)
        IN  /\ (CallOf(id, location, date) /\ CalledSimulating
                /\ FreshFrom(key, "live"))
               => /\ ~ret'.raised
                  /\ ret'.weather = cache[key].weather
                  /\ ~ret'.weather.is_simulated
                  /\ ~ret'.synthesized
                  /\ cache' = cache
            /\ (CallOf(id, location, date) /\ ~CalledSimulating
                /\ FreshFrom(key, "synthesized"))
               => /\ ret'.returned
                  /\ ~ret'.raised
                  /\ ret'.weather = cache[key].weather
                  /\ ret'.weather.is_simulated
                  /\ ~ret'.fetched
                  /\ task'[id].pc # "fetching"
                  /\ cache' = cache]_vars

\* A simulating call has returned a live observation from the cache.
C29_Witness ==
    /\ ret.returned
    /\ ret.use_simulation
    /\ ~ret.raised
    /\ ~ret.weather.is_simulated
    /\ ~ret.synthesized
    /\ ~ret.fetched
    /\ origin[RetKey] = "live"

(***************************************************************************)
(* C30.  The activity classifier: the verdict alone.                       *)
(***************************************************************************)
OutdoorMatched == Matching(OUTDOOR_ACTIVITIES, given.text)
IndoorMatched == Matching(INDOOR_ACTIVITIES, given.text)
SaysOutside == Matching(<<"outside">>, given.text) # {}

\* C30: the comparison of the outdoor and indoor counts never changes the
\* verdict of classify_activity_weather_sensitivity: it is not sensitive if
\* and only if no outdoor keyword matches, some indoor keyword matches and
\* the text does not contain "outside"; with any outdoor keyword matched it
\* is sensitive, however many indoor keywords match.
C30_CountsNeverChangeVerdict ==
    Classified =>
        /\ ~answer.value.is_sensitive
               <=> (OutdoorMatched = {} /\ IndoorMatched # {} /\ ~SaysOutside)
        /\ OutdoorMatched # {} => answer.value.is_sensitive

\* One outdoor keyword against two indoor ones, and the verdict is sensitive.
C30_Witness ==
    /\ Classified
    /\ given.text = "Skip the meeting after the picnic lunch"
    /\ OutdoorMatched = {"picnic"}
    /\ IndoorMatched = {"meeting", "lunch"}
    /\ ~SaysOutside
    /\ answer.value.is_sensitive

====
